---------------------------- MODULE Spec2Model ----------------------------
(***************************************************************************)
(* Response cache of the AutoAudit API: CacheMiddleware, _ResponseCatcher  *)
(* (app/api/middleware/cache_middleware.py) and CacheService               *)
(* (app/services/cache_service.py) over a Redis backend.                   *)
(*                                                                         *)
(* Byte strings (bytes) and texts (str) are sequences of integers: a byte  *)
(* string holds bytes 0..255, a text holds code points.  The byte strings  *)
(* of the model use bytes below 0xE0 only, so UTF-8 sequences are one or   *)
(* two bytes long.                                                         *)
(***************************************************************************)
EXTENDS Integers, Sequences, FiniteSets, TLC

(***************************************************************************)
(* Bounds of the model.                                                    *)
(***************************************************************************)
NumTasks == 1
MaxLookups == 2
MaxCount == 5

(***************************************************************************)
(* Configuration read through settings.                                    *)
(***************************************************************************)
CACHE_TTL_DEFAULT == 2
CACHE_KEY_PREFIX == "autoaudit"

(***************************************************************************)
(* Codecs: bytes.decode() / str.encode() (UTF-8), str.encode("latin-1"),   *)
(* str.lower().  A failed conversion is [ok |-> FALSE, val |-> <<>>].      *)
(***************************************************************************)
Fail == [ok |-> FALSE, val |-> <<>>]
Ok(v) == [ok |-> TRUE, val |-> v]

Ascii(s) == \A i \in 1..Len(s) : s[i] < 128

RECURSIVE Utf8Decode(_)
Utf8Decode(bs) ==
    IF Ascii(bs) THEN Ok(bs)
    ELSE IF bs[1] < 128
    THEN LET r == Utf8Decode(Tail(bs))
         IN  IF r.ok THEN Ok(<<bs[1]>> \o r.val) ELSE Fail
    ELSE IF /\ bs[1] >= 194 /\ bs[1] <= 223
            /\ Len(bs) >= 2 /\ bs[2] >= 128 /\ bs[2] <= 191
    THEN LET r == Utf8Decode(Tail(Tail(bs)))
         IN  IF r.ok
             THEN Ok(<<(bs[1] - 192) * 64 + (bs[2] - 128)>> \o r.val)
             ELSE Fail
    ELSE Fail

RECURSIVE Utf8Encode(_)
Utf8Encode(text) ==
    IF Ascii(text) THEN text
    ELSE IF text[1] < 128
    THEN <<text[1]>> \o Utf8Encode(Tail(text))
    ELSE <<192 + (text[1] \div 64), 128 + (text[1] % 64)>>
         \o Utf8Encode(Tail(text))

Latin1Encode(text) ==
    IF \A i \in 1..Len(text) : text[i] <= 255 THEN Ok(text) ELSE Fail

Lower(text) ==
    [i \in 1..Len(text) |->
        IF text[i] >= 65 /\ text[i] <= 90 THEN text[i] + 32 ELSE text[i]]

\* str(n).encode("latin-1") for 0 <= n <= 999
DecimalBytes(n) ==
    IF n < 10 THEN <<48 + n>>
    ELSE IF n < 100 THEN <<48 + (n \div 10), 48 + (n % 10)>>
    ELSE <<48 + (n \div 100), 48 + ((n \div 10) % 10), 48 + (n % 10)>>

(***************************************************************************)
(* dict[str, str]: a sequence of <<key, value>> pairs with distinct keys,  *)
(* in insertion order; assigning an existing key keeps its place.          *)
(***************************************************************************)
DictHas(d, k) == \E i \in 1..Len(d) : d[i][1] = k

DictGet(d, k) == d[CHOOSE i \in 1..Len(d) : d[i][1] = k][2]

\* a mapping that keeps the first value of a key
DictSet_FirstWins(d, k, v) ==
    IF DictHas(d, k) THEN d ELSE Append(d, <<k, v>>)

DictSet(d, k, v) ==
    IF DictHas(d, k)
    THEN [i \in 1..Len(d) |-> IF d[i][1] = k THEN <<k, v>> ELSE d[i]]
    ELSE Append(d, <<k, v>>)

\* {k.decode(): v.decode() for k, v in raw_headers}
RECURSIVE DecodeHeadersInto(_, _)
DecodeHeadersInto(d, raw_headers) ==
    IF raw_headers = <<>> THEN Ok(d)
    ELSE LET k == Utf8Decode(raw_headers[1][1])
             v == Utf8Decode(raw_headers[1][2])
         IN  IF k.ok /\ v.ok
             THEN DecodeHeadersInto(DictSet(d, k.val, v.val), Tail(raw_headers))
             ELSE Fail

DecodeHeaders(raw_headers) == DecodeHeadersInto(<<>>, raw_headers)

(***************************************************************************)
(* json.dumps of the payload dict and json.loads of a stored string.  A    *)
(* stored string is held as [kind, doc, text]: kind "json" for a string    *)
(* that parses to an object, held as its parse doc (Text gives the string  *)
(* back); kind "raw" for any other string, held as its text; kind "none"   *)
(* stands for None.                                                        *)
(***************************************************************************)
HexDigit(n) == IF n < 10 THEN 48 + n ELSE 87 + n

JsonEscapeChar(c) ==
    IF c = 34 THEN <<92, 34>>
    ELSE IF c = 92 THEN <<92, 92>>
    ELSE IF c = 10 THEN <<92, 110>>
    ELSE IF c = 13 THEN <<92, 114>>
    ELSE IF c = 9 THEN <<92, 116>>
    ELSE IF c = 8 THEN <<92, 98>>
    ELSE IF c = 12 THEN <<92, 102>>
    ELSE IF c >= 32 /\ c < 128 THEN <<c>>
    ELSE <<92, 117, HexDigit(c \div 4096), HexDigit((c \div 256) % 16),
           HexDigit((c \div 16) % 16), HexDigit(c % 16)>>

RECURSIVE JsonEscape(_)
JsonEscape(text) ==
    IF \A i \in 1..Len(text) : JsonEscapeChar(text[i]) = <<text[i]>>
    THEN text
    ELSE JsonEscapeChar(text[1]) \o JsonEscape(Tail(text))

JsonString(text) == <<34>> \o JsonEscape(text) \o <<34>>

RECURSIVE JsonMembers(_)
JsonMembers(d) ==
    IF d = <<>> THEN <<>>
    ELSE JsonString(d[1][1]) \o <<58, 32>> \o JsonString(d[1][2])
         \o (IF Len(d) > 1 THEN <<44, 32>> ELSE <<>>)
         \o JsonMembers(Tail(d))

\* an int of at most three digits
JsonNumber(n) ==
    IF n < 100 THEN DecimalBytes(n)
    ELSE <<48 + (n \div 100), 48 + ((n \div 10) % 10), 48 + (n % 10)>>

\* {"body": ..., "headers": {...}, "status_code": ...}
JsonText(payload) ==
    <<123, 34, 98, 111, 100, 121, 34, 58, 32>> \o JsonString(payload.body)
    \o <<44, 32, 34, 104, 101, 97, 100, 101, 114, 115, 34, 58, 32, 123>>
    \o JsonMembers(payload.headers)
    \o <<125, 44, 32, 34, 115, 116, 97, 116, 117, 115, 95, 99, 111, 100,
         101, 34, 58, 32>>
    \o JsonNumber(payload.status_code) \o <<125>>

NoDoc == [body |-> <<>>, headers |-> <<>>, status_code |-> 0]
None == [kind |-> "none", doc |-> NoDoc, text |-> <<>>]
RawString(text) == [kind |-> "raw", doc |-> NoDoc, text |-> text]

JsonDumps(payload) == [kind |-> "json", doc |-> payload, text |-> <<>>]

JsonLoads(value) == IF value.kind = "json" THEN Ok(value.doc) ELSE Fail

Text(value) == IF value.kind = "json" THEN JsonText(value.doc) ELSE value.text

\* bool(cached): None and the empty string are falsy
Truthy(value) == value.kind # "none" /\ Text(value) # <<>>

(***************************************************************************)
(* starlette's Response(content, status_code, headers): the body is the    *)
(* content encoded as UTF-8, each header is (name.lower(), value) encoded  *)
(* as latin-1, and a content-length header is added when none is given.    *)
(* The constructor raises when a header does not encode.                   *)
(***************************************************************************)
CONTENT_LENGTH ==
    <<99, 111, 110, 116, 101, 110, 116, 45, 108, 101, 110, 103, 116, 104>>

RECURSIVE EncodeHeaders(_)
EncodeHeaders(d) ==
    IF d = <<>> THEN Ok(<<>>)
    ELSE LET k == Latin1Encode(Lower(d[1][1]))
             v == Latin1Encode(d[1][2])
             r == EncodeHeaders(Tail(d))
         IN  IF k.ok /\ v.ok /\ r.ok
             THEN Ok(<<<<k.val, v.val>>>> \o r.val)
             ELSE Fail

RawHas(raw_headers, name) ==
    \E i \in 1..Len(raw_headers) : raw_headers[i][1] = name

Response(content, status_code, headers) ==
    LET body == Utf8Encode(content)
        raw == EncodeHeaders(headers)
    IN  IF ~raw.ok THEN Fail
        ELSE Ok([status |-> status_code,
                 raw_headers |->
                     IF \/ RawHas(raw.val, CONTENT_LENGTH)
                        \/ status_code < 200
                        \/ status_code \in {204, 304}
                     THEN raw.val
                     ELSE Append(raw.val,
                                 <<CONTENT_LENGTH, DecimalBytes(Len(body))>>),
                 body |-> body])

(***************************************************************************)
(* ASGI response messages.                                                 *)
(***************************************************************************)
StartMsg(status, headers) ==
    [type |-> "http.response.start", status |-> status,
     headers |-> headers, body |-> <<>>]

BodyMsg(body) ==
    [type |-> "http.response.body", status |-> 0,
     headers |-> <<>>, body |-> body]

\* Response.__call__: the start message, then the whole body
ResponseMessages(response) ==
    <<StartMsg(response.status, response.raw_headers), BodyMsg(response.body)>>

(***************************************************************************)
(* CacheMiddleware.__call__, the hit branch: the response restored from    *)
(* the cached string, or the cached string itself as a 200 body when it    *)
(* does not parse or the response cannot be built from it.                 *)
(***************************************************************************)
\* a hit path that ignores the parsed payload and always answers with the
\* string itself, as the except branch does
RestoreResponse_AlwaysFallback(cached) == Response(Text(cached), 200, <<>>).val

RestoreResponse(cached) ==
    LET cached_obj == JsonLoads(cached)
        response == IF cached_obj.ok
                    THEN Response(cached_obj.val.body,
                                  cached_obj.val.status_code,
                                  cached_obj.val.headers)
                    ELSE Fail
    IN  IF response.ok THEN response.val
        ELSE Response(Text(cached), 200, <<>>).val

(***************************************************************************)
(* The downstream pipeline (self.app) is a black box: one invocation emits *)
(* a sequence of response messages and then returns or raises.  These are  *)
(* the behaviours the model draws from.                                    *)
(***************************************************************************)
CONTENT_TYPE == <<99, 111, 110, 116, 101, 110, 116, 45, 116, 121, 112, 101>>
SET_COOKIE == <<115, 101, 116, 45, 99, 111, 111, 107, 105, 101>>
X_NAME == <<120, 45, 110, 97, 109, 101>>

Behaviour(msgs, ending) == [msgs |-> msgs, ending |-> ending]

NoApp == Behaviour(<<>>, "none")

\* 200 with content-type and content-length, one body chunk
AppOk ==
    Behaviour(<<StartMsg(200, <<<<CONTENT_TYPE, <<97>>>>,
                                <<CONTENT_LENGTH, <<50>>>>>>),
                BodyMsg(<<97, 98>>)>>, "return")

\* 200 streamed in two chunks, without content-length
AppStream ==
    Behaviour(<<StartMsg(200, <<<<CONTENT_TYPE, <<97>>>>>>),
                BodyMsg(<<97>>), BodyMsg(<<98>>)>>, "return")

\* 200 with a repeated header name
AppCookies ==
    Behaviour(<<StartMsg(200, <<<<SET_COOKIE, <<97>>>>, <<SET_COOKIE, <<98>>>>,
                                <<CONTENT_LENGTH, <<48>>>>>>),
                BodyMsg(<<>>)>>, "return")

\* 404
AppNotFound ==
    Behaviour(<<StartMsg(404, <<<<CONTENT_LENGTH, <<49>>>>>>),
                BodyMsg(<<110>>)>>, "return")

\* 200 with a latin-1 header value (0xE9), which is not UTF-8
AppLatin1Header ==
    Behaviour(<<StartMsg(200, <<<<X_NAME, <<233>>>>,
                                <<CONTENT_LENGTH, <<48>>>>>>),
                BodyMsg(<<>>)>>, "return")

\* 200 with a header value that is UTF-8 for U+00E9
AppUtf8Header ==
    Behaviour(<<StartMsg(200, <<<<X_NAME, <<195, 169>>>>,
                                <<CONTENT_LENGTH, <<48>>>>>>),
                BodyMsg(<<>>)>>, "return")

\* 200 with a header value that is UTF-8 for U+0100
AppWideHeader ==
    Behaviour(<<StartMsg(200, <<<<X_NAME, <<196, 128>>>>,
                                <<CONTENT_LENGTH, <<48>>>>>>),
                BodyMsg(<<>>)>>, "return")

\* 200 with a body that is not UTF-8 (the gzip magic)
AppBinaryBody ==
    Behaviour(<<StartMsg(200, <<<<CONTENT_LENGTH, <<50>>>>>>),
                BodyMsg(<<31, 139>>)>>, "return")

\* raises before any message
AppRaiseEarly == Behaviour(<<>>, "raise")

\* raises after the start message and one chunk
AppRaiseLate ==
    Behaviour(<<StartMsg(200, <<<<CONTENT_TYPE, <<97>>>>>>),
                BodyMsg(<<97>>)>>, "raise")

\* returns without any message
AppSilent == Behaviour(<<>>, "return")

\* the behaviours by name
AppOf(name) ==
    CASE name = "ok" -> AppOk
      [] name = "stream" -> AppStream
      [] name = "cookies" -> AppCookies
      [] name = "not_found" -> AppNotFound
      [] name = "latin1_header" -> AppLatin1Header
      [] name = "utf8_header" -> AppUtf8Header
      [] name = "wide_header" -> AppWideHeader
      [] name = "binary_body" -> AppBinaryBody
      [] name = "raise_early" -> AppRaiseEarly
      [] name = "raise_late" -> AppRaiseLate
      [] name = "silent" -> AppSilent
      [] OTHER -> NoApp

AppBehaviours ==
    {"ok", "stream", "cookies", "not_found", "latin1_header", "wide_header",
     "binary_body", "raise_early", "raise_late", "silent"}

(***************************************************************************)
(* Requests.                                                               *)
(***************************************************************************)
Methods == {"GET", "POST"}
Paths == {"/users"}
Queries == {"", "role=admin"}

\* request.url.path + "?" + (request.url.query or "")
CacheKey(path, query) == path \o "?" \o query

Keys == {CacheKey(p, q) : p \in Paths, q \in Queries}

\* f"{settings.CACHE_KEY_PREFIX}:{key}"
Namespaced(key) == CACHE_KEY_PREFIX \o ":" \o key

BackendKeys == {Namespaced(k) : k \in Keys}

(***************************************************************************)
(* State.                                                                  *)
(*   CACHE_ENABLED  settings.CACHE_ENABLED                                 *)
(*   redis          the backend: each key's value and the seconds it has   *)
(*                  left to live; origin records the response messages the *)
(*                  writer's caller got                                    *)
(*   redisUp        whether the backend answers (else each call raises)    *)
(*   hits, misses   CacheService's counters                                *)
(*   task           the in-flight requests, one coroutine each             *)
(*   env            what the surroundings may do: the behaviours self.app  *)
(*                  may show and the query strings requests may carry      *)
(***************************************************************************)
VARIABLES CACHE_ENABLED, redis, redisUp, hits, misses, task, env, call

vars == <<CACHE_ENABLED, redis, redisUp, hits, misses, task, env, call>>

NoEntry == [value |-> None, ttl |-> 0, origin |-> <<>>]

\* call is the last call made on the cache outside a request through the
\* middleware (an endpoint of api/v1/cache.py, a method of CacheService, a
\* write by another user of the backend) with what it returned
NoCall == [op |-> "none"]

IdleTask ==
    [pc |-> "idle", method |-> "", path |-> "", query |-> "", key |-> "",
     cached |-> None, tee |-> FALSE,
     status_code |-> 0, headers |-> <<>>, body |-> <<>>,
     app |-> "none", pos |-> 0, sent |-> <<>>, outcome |-> "none",
     lookup |-> "none", origin |-> <<>>, invoked |-> 0, gets |-> 0,
     sets |-> 0, stored |-> "none", authorization |-> <<>>]

Init ==
    /\ CACHE_ENABLED \in BOOLEAN
    /\ redis = [bk \in BackendKeys |-> NoEntry]
    /\ redisUp = TRUE
    /\ hits = 0
    /\ misses = 0
    /\ task = [t \in 1..NumTasks |-> IdleTask]
    /\ env = [apps |-> AppBehaviours, queries |-> {"role=admin"}]
    /\ call = NoCall

(***************************************************************************)
(* CacheService.                                                           *)
(***************************************************************************)
\* redis.get: the value under a backend key, None once it has expired
\* (SET with ex=n counts n seconds down)
RedisGet(bk) ==
    IF redis[bk].value.kind # "none" /\ redis[bk].ttl > 0
    THEN redis[bk].value
    ELSE None

\* a get that adds one to the counter as it was before any request in
\* flight had looked up
CacheServiceGet_LostUpdate(key) ==
    IF ~redisUp
    THEN [raised |-> TRUE, value |-> None, hits |-> hits, misses |-> misses]
    ELSE LET value == RedisGet(Namespaced(key))
         IN  IF value = None
             THEN [raised |-> FALSE, value |-> value,
                   hits |-> hits, misses |-> 1]
             ELSE [raised |-> FALSE, value |-> value,
                   hits |-> 1, misses |-> misses]

\* a get that leaves misses alone when the key is absent
CacheServiceGet_MissUncounted(key) ==
    IF ~redisUp
    THEN [raised |-> TRUE, value |-> None, hits |-> hits, misses |-> misses]
    ELSE LET value == RedisGet(Namespaced(key))
         IN  [raised |-> FALSE, value |-> value,
              hits |-> IF value = None THEN hits ELSE hits + 1,
              misses |-> misses]

\* a get that answers a backend failure as an absent key
CacheServiceGet_Swallows(key) ==
    IF ~redisUp
    THEN [raised |-> FALSE, value |-> None,
          hits |-> hits, misses |-> misses + 1]
    ELSE LET value == RedisGet(Namespaced(key))
         IN  IF value = None
             THEN [raised |-> FALSE, value |-> value,
                   hits |-> hits, misses |-> misses + 1]
             ELSE [raised |-> FALSE, value |-> value,
                   hits |-> hits + 1, misses |-> misses]

\* CacheService.get: the value, the counters after the call, and whether
\* the backend call raised (the counters are then untouched)
CacheServiceGet(key) ==
    IF ~redisUp
    THEN [raised |-> TRUE, value |-> None, hits |-> hits, misses |-> misses]
    ELSE LET value == RedisGet(Namespaced(key))
         IN  IF value = None
             THEN [raised |-> FALSE, value |-> value,
                   hits |-> hits, misses |-> misses + 1]
             ELSE [raised |-> FALSE, value |-> value,
                   hits |-> hits + 1, misses |-> misses]

\* an expiry one second longer than asked for
Expire_OneMore(ttl) == (IF ttl # 0 THEN ttl ELSE CACHE_TTL_DEFAULT) + 1

\* expire = ttl or settings.CACHE_TTL_DEFAULT
Expire(ttl) == IF ttl # 0 THEN ttl ELSE CACHE_TTL_DEFAULT

\* a set that leaves a live entry alone (SET ... NX)
CacheServiceSet_IfAbsent(key, value, ttl, origin) ==
    IF ~redisUp
    THEN [raised |-> TRUE, redis |-> redis]
    ELSE IF redis[Namespaced(key)].ttl > 0
    THEN [raised |-> FALSE, redis |-> redis]
    ELSE [raised |-> FALSE,
          redis |-> [redis EXCEPT ![Namespaced(key)] =
                        [value |-> value, ttl |-> Expire(ttl),
                         origin |-> origin]]]

\* a set that replaces the value of a live entry and keeps its expiry
CacheServiceSet_KeepsExpiry(key, value, ttl, origin) ==
    IF ~redisUp
    THEN [raised |-> TRUE, redis |-> redis]
    ELSE [raised |-> FALSE,
          redis |-> [redis EXCEPT ![Namespaced(key)] =
                        [value |-> value,
                         ttl |-> IF @.ttl > 0 THEN @.ttl ELSE Expire(ttl),
                         origin |-> origin]]]

\* CacheService.set: the backend after the call, and whether it raised
CacheServiceSet(key, value, ttl, origin) ==
    IF ~redisUp
    THEN [raised |-> TRUE, redis |-> redis]
    ELSE [raised |-> FALSE,
          redis |-> [redis EXCEPT ![Namespaced(key)] =
                        [value |-> value, ttl |-> Expire(ttl),
                         origin |-> origin]]]

(***************************************************************************)
(* CacheMiddleware.__call__ and _ResponseCatcher.__call__, one action per  *)
(* stretch of code between two awaits.                                     *)
(***************************************************************************)
\* an eligibility test that forgets the method
Cacheable_AnyMethod(method) == CACHE_ENABLED

\* scope["type"] == "http" and scope["method"] == "GET" and CACHE_ENABLED
Cacheable(method) == method = "GET" /\ CACHE_ENABLED

\* A request arrives, with the value of its Authorization header (empty
\* for none).  Cacheable: the key is computed from the path and the query
\* and the lookup is awaited.  Otherwise self.app is invoked with the
\* caller's send.
Request(t, method, path, query, authorization) ==
    /\ task[t].pc = "idle"
    /\ \A u \in 1..(t - 1) : task[u].pc # "idle"
    /\ IF Cacheable(method)
       THEN task' = [task EXCEPT ![t] =
                [IdleTask EXCEPT !.pc = "get", !.method = method,
                    !.path = path, !.query = query,
                    !.key = CacheKey(path, query),
                    !.authorization = authorization]]
       ELSE \E b \in env.apps :
                task' = [task EXCEPT ![t] =
                    [IdleTask EXCEPT !.pc = "app", !.method = method,
                        !.path = path, !.query = query, !.app = b,
                        !.invoked = 1, !.authorization = authorization]]
    /\ UNCHANGED <<CACHE_ENABLED, redis, redisUp, hits, misses, env, call>>

\* a request without an Authorization header
Call(t, method, path, query) == Request(t, method, path, query, <<>>)

\* cache_service.get returns or raises; a truthy value is answered from,
\* anything else starts a _ResponseCatcher around self.app.
CacheGet(t) ==
    /\ task[t].pc = "get"
    /\ hits + misses < MaxLookups
    /\ LET r == CacheServiceGet(task[t].key)
           cached == IF r.raised THEN None ELSE r.value
           looked == [task[t] EXCEPT !.gets = @ + 1,
                         !.lookup = IF r.raised THEN "error"
                                    ELSE IF r.value = None THEN "absent"
                                    ELSE "value"]
       IN  /\ hits' = r.hits
           /\ misses' = r.misses
           /\ IF Truthy(cached)
              THEN task' = [task EXCEPT ![t] =
                       [looked EXCEPT !.pc = "respond", !.cached = cached,
                           !.origin = redis[Namespaced(task[t].key)].origin]]
              ELSE \E b \in env.apps :
                       task' = [task EXCEPT ![t] =
                           [looked EXCEPT !.pc = "app", !.cached = cached,
                               !.tee = TRUE, !.status_code = 200,
                               !.headers = <<>>, !.body = <<>>, !.app = b,
                               !.invoked = @ + 1]]
    /\ UNCHANGED <<CACHE_ENABLED, redis, redisUp, env, call>>

\* a hit that puts the request's credential into the response
Respond_EchoesCredential(t) ==
    /\ task[t].pc = "respond"
    /\ task' = [task EXCEPT ![t].pc = "done", ![t].outcome = "ok",
                   ![t].sent = @ \o ResponseMessages(
                                        RestoreResponse(task[t].cached))
                                 \o <<BodyMsg(task[t].authorization)>>]
    /\ UNCHANGED <<CACHE_ENABLED, redis, redisUp, hits, misses, env, call>>

\* a hit that starts the entry's time to live over (sliding expiration)
Respond_Slides(t) ==
    /\ task[t].pc = "respond"
    /\ task' = [task EXCEPT ![t].pc = "done", ![t].outcome = "ok",
                   ![t].sent = @ \o ResponseMessages(
                                        RestoreResponse(task[t].cached))]
    /\ redis' = [redis EXCEPT ![Namespaced(task[t].key)].ttl =
                    IF @ > 0 THEN CACHE_TTL_DEFAULT ELSE @]
    /\ UNCHANGED <<CACHE_ENABLED, redisUp, hits, misses, env, call>>

\* the response is restored from the cached string;
\* await response(scope, receive, send); return
Respond(t) ==
    /\ task[t].pc = "respond"
    /\ task' = [task EXCEPT ![t].pc = "done", ![t].outcome = "ok",
                   ![t].sent = @ \o ResponseMessages(
                                        RestoreResponse(task[t].cached))]
    /\ UNCHANGED <<CACHE_ENABLED, redis, redisUp, hits, misses, env, call>>

\* send_wrapper up to its await: what the catcher holds after the message,
\* or raised when a header does not decode
SendWrapper(c, message) ==
    IF message.type = "http.response.start"
    THEN LET headers == DecodeHeaders(message.headers)
         IN  IF headers.ok
             THEN [raised |-> FALSE, status_code |-> message.status,
                   headers |-> headers.val, body |-> c.body]
             ELSE [raised |-> TRUE, status_code |-> message.status,
                   headers |-> c.headers, body |-> c.body]
    ELSE IF message.type = "http.response.body"
    THEN [raised |-> FALSE, status_code |-> c.status_code,
          headers |-> c.headers, body |-> c.body \o message.body]
    ELSE [raised |-> FALSE, status_code |-> c.status_code,
          headers |-> c.headers, body |-> c.body]

\* what send_wrapper passes to the caller's send
Forwarded(message) == <<message>>

\* self.app emits its next message.  Through the tee the message is first
\* captured and then sent on; an exception of send_wrapper leaves self.app
\* and the middleware.
AppSend(t) ==
    /\ task[t].pc = "app"
    /\ task[t].pos < Len(AppOf(task[t].app).msgs)
    /\ LET message == AppOf(task[t].app).msgs[task[t].pos + 1]
           w == SendWrapper(task[t], message)
       IN  IF ~task[t].tee
           THEN task' = [task EXCEPT ![t].pos = @ + 1,
                            ![t].sent = Append(@, message)]
           ELSE IF w.raised
           THEN task' = [task EXCEPT ![t].pos = @ + 1, ![t].pc = "done",
                            ![t].status_code = w.status_code,
                            ![t].outcome = "error"]
           ELSE task' = [task EXCEPT ![t].pos = @ + 1,
                            ![t].status_code = w.status_code,
                            ![t].headers = w.headers, ![t].body = w.body,
                            ![t].sent = @ \o Forwarded(message)]
    /\ UNCHANGED <<CACHE_ENABLED, redis, redisUp, hits, misses, env, call>>

\* a write condition that forgets the flag
ShouldStore_IgnoresFlag(status_code) == status_code = 200

\* a write condition that forgets the status code
ShouldStore_AnyStatus(status_code) == CACHE_ENABLED

\* self.status_code == 200 and settings.CACHE_ENABLED
ShouldStore(status_code) == status_code = 200 /\ CACHE_ENABLED

\* the payload dict, or a failure when the body is not UTF-8
Payload(c) ==
    LET body == Utf8Decode(c.body)
    IN  IF body.ok
        THEN Ok([body |-> body.val, headers |-> c.headers,
                 status_code |-> c.status_code])
        ELSE Fail

\* self.app returns.  The tee then builds the payload from what it caught
\* and goes on to cache_service.set, unless the status or the body rules
\* it out.
AppReturn(t) ==
    /\ task[t].pc = "app"
    /\ task[t].pos = Len(AppOf(task[t].app).msgs)
    /\ AppOf(task[t].app).ending = "return"
    /\ LET payload == Payload(task[t])
       IN  IF task[t].tee /\ ShouldStore(task[t].status_code)
           THEN IF payload.ok
                THEN task' = [task EXCEPT ![t].pc = "set"]
                ELSE task' = [task EXCEPT ![t].pc = "done",
                                 ![t].outcome = "ok",
                                 ![t].stored = "unencodable"]
           ELSE task' = [task EXCEPT ![t].pc = "done", ![t].outcome = "ok"]
    /\ UNCHANGED <<CACHE_ENABLED, redis, redisUp, hits, misses, env, call>>

\* self.app raises: the exception leaves the middleware
AppRaise(t) ==
    /\ task[t].pc = "app"
    /\ task[t].pos = Len(AppOf(task[t].app).msgs)
    /\ AppOf(task[t].app).ending = "raise"
    /\ task' = [task EXCEPT ![t].pc = "done", ![t].outcome = "error"]
    /\ UNCHANGED <<CACHE_ENABLED, redis, redisUp, hits, misses, env, call>>

\* a write step with no except clause: the exception of cache_service.set
\* leaves the middleware
CacheSet_Propagates(t) ==
    /\ task[t].pc = "set"
    /\ LET r == CacheServiceSet(task[t].key,
                                JsonDumps(Payload(task[t]).val),
                                CACHE_TTL_DEFAULT, task[t].sent)
       IN  /\ redis' = r.redis
           /\ task' = [task EXCEPT ![t].pc = "done",
                          ![t].outcome = IF r.raised THEN "error" ELSE "ok",
                          ![t].sets = @ + 1,
                          ![t].stored = IF r.raised THEN "failed"
                                        ELSE "written"]
    /\ UNCHANGED <<CACHE_ENABLED, redisUp, hits, misses, env, call>>

\* json.dumps(payload); cache_service.set returns or raises, and the
\* exception is logged
CacheSet(t) ==
    /\ task[t].pc = "set"
    /\ LET r == CacheServiceSet(task[t].key,
                                JsonDumps(Payload(task[t]).val),
                                CACHE_TTL_DEFAULT, task[t].sent)
       IN  /\ redis' = r.redis
           /\ task' = [task EXCEPT ![t].pc = "done", ![t].outcome = "ok",
                          ![t].sets = @ + 1,
                          ![t].stored = IF r.raised THEN "failed"
                                        ELSE "written"]
    /\ UNCHANGED <<CACHE_ENABLED, redisUp, hits, misses, env, call>>

(***************************************************************************)
(* The backend: time passes and entries expire; the server goes away and   *)
(* comes back.                                                             *)
(***************************************************************************)
Tick ==
    /\ \E bk \in DOMAIN redis : redis[bk].ttl > 0
    /\ redis' = [bk \in DOMAIN redis |->
                    IF redis[bk].ttl > 1
                    THEN [redis[bk] EXCEPT !.ttl = @ - 1]
                    ELSE NoEntry]
    /\ UNCHANGED <<CACHE_ENABLED, redisUp, hits, misses, task, env, call>>

BackendFail ==
    /\ redisUp
    /\ redisUp' = FALSE
    /\ UNCHANGED <<CACHE_ENABLED, redis, hits, misses, task, env, call>>

BackendRecover ==
    /\ ~redisUp
    /\ redisUp' = TRUE
    /\ UNCHANGED <<CACHE_ENABLED, redis, hits, misses, task, env, call>>

\* The coroutine of a finished request ends.  A finished request is what
\* the properties below look at; it ends before anything else happens, so
\* that what it leaves behind is not carried through the later states.
\* The slots of task are interchangeable: the requests in flight are kept
\* in the first ones.
Finish(t) ==
    /\ task[t].pc = "done"
    /\ task' = [u \in DOMAIN task |->
                   IF u < t THEN task[u]
                   ELSE IF u + 1 \in DOMAIN task THEN task[u + 1]
                   ELSE IdleTask]
    /\ UNCHANGED <<CACHE_ENABLED, redis, redisUp, hits, misses, env, call>>

Running == \A t \in DOMAIN task : task[t].pc # "done"

Next ==
    \/ \E t \in DOMAIN task, m \in Methods, p \in Paths, q \in env.queries :
           Running /\ Call(t, m, p, q)
    \/ \E t \in DOMAIN task : Running /\ CacheGet(t)
    \/ \E t \in DOMAIN task : Running /\ Respond(t)
    \/ \E t \in DOMAIN task : Running /\ AppSend(t)
    \/ \E t \in DOMAIN task : Running /\ AppReturn(t)
    \/ \E t \in DOMAIN task : Running /\ AppRaise(t)
    \/ \E t \in DOMAIN task : Running /\ CacheSet(t)
    \/ Running /\ Tick
    \/ Running /\ BackendFail
    \/ Running /\ BackendRecover
    \/ \E t \in DOMAIN task : Finish(t)

Spec == Init /\ [][Next]_vars

(***************************************************************************)
(* The backend down for good: every call of it raises.                     *)
(***************************************************************************)
InitBackendDown ==
    /\ CACHE_ENABLED \in BOOLEAN
    /\ redis = [bk \in BackendKeys |-> NoEntry]
    /\ redisUp = FALSE
    /\ hits = 0
    /\ misses = 0
    /\ task = [t \in 1..NumTasks |-> IdleTask]
    /\ env = [apps |-> AppBehaviours, queries |-> Queries]
    /\ call = NoCall

NextBackendDown ==
    \/ \E t \in DOMAIN task, m \in Methods, p \in Paths, q \in env.queries :
           Running /\ Call(t, m, p, q)
    \/ \E t \in DOMAIN task : Running /\ CacheGet(t)
    \/ \E t \in DOMAIN task : Running /\ AppSend(t)
    \/ \E t \in DOMAIN task : Running /\ AppReturn(t)
    \/ \E t \in DOMAIN task : Running /\ AppRaise(t)
    \/ \E t \in DOMAIN task : Running /\ CacheSet(t)
    \/ \E t \in DOMAIN task : Finish(t)

SpecBackendDown == InitBackendDown /\ [][NextBackendDown]_vars

(***************************************************************************)
(* What a caller saw: the status and headers of the start message and the  *)
(* body chunks joined.                                                     *)
(***************************************************************************)
Done(t) == task[t].pc = "done"

\* the messages self.app has passed to send so far
Emitted(t) == SubSeq(AppOf(task[t].app).msgs, 1, task[t].pos)

HasStart(msgs) == \E i \in 1..Len(msgs) : msgs[i].type = "http.response.start"

StartOf(msgs) ==
    msgs[CHOOSE i \in 1..Len(msgs) : msgs[i].type = "http.response.start"]

StatusOf(msgs) == IF HasStart(msgs) THEN StartOf(msgs).status ELSE 0

HeadersOf(msgs) == IF HasStart(msgs) THEN StartOf(msgs).headers ELSE <<>>

RECURSIVE BodyOf(_)
BodyOf(msgs) ==
    IF msgs = <<>> THEN <<>>
    ELSE (IF msgs[1].type = "http.response.body" THEN msgs[1].body ELSE <<>>)
         \o BodyOf(Tail(msgs))

\* the request was served from the cache
Hit(t) == task[t].lookup = "value" /\ task[t].invoked = 0

\* what the caller gets from self.app with no cache layer in between
Uncached(t) ==
    [sent |-> AppOf(task[t].app).msgs,
     outcome |-> IF AppOf(task[t].app).ending = "raise" THEN "error"
                 ELSE "ok"]

(***************************************************************************)
(* C1.  Once a GET has been answered by self.app with status 200 and its   *)
(* snapshot stored, a later GET with the same path and query that is       *)
(* served from the entry gets the same status code, the same headers and   *)
(* the same body bytes as the caller of the first one, and self.app is not *)
(* invoked for it.                                                         *)
(***************************************************************************)
C1_HitRepeatsFirstResponse ==
    \A t \in DOMAIN task :
        (Done(t) /\ task[t].lookup = "value"
                 /\ StatusOf(task[t].origin) = 200) =>
            /\ StatusOf(task[t].sent) = StatusOf(task[t].origin)
            /\ HeadersOf(task[t].sent) = HeadersOf(task[t].origin)
            /\ BodyOf(task[t].sent) = BodyOf(task[t].origin)
            /\ task[t].invoked = 0

(***************************************************************************)
(* C2.  On a miss the caller has received, at every moment, exactly the    *)
(* messages self.app has emitted so far, unmodified and in order.          *)
(***************************************************************************)
C2_TeeForwardsEveryMessage ==
    \A t \in DOMAIN task : task[t].tee => task[t].sent = Emitted(t)

(***************************************************************************)
(* C3.  When cache_service.get raises, the request is served as a miss:    *)
(* self.app is invoked exactly once and the caller gets what self.app      *)
(* produces, with no error of the cache layer's own.                       *)
(***************************************************************************)
C3_FailedLookupIsServedDownstream ==
    \A t \in DOMAIN task :
        (Done(t) /\ task[t].lookup = "error") =>
            /\ task[t].invoked = 1
            /\ task[t].sent = Uncached(t).sent
            /\ task[t].outcome = Uncached(t).outcome

(***************************************************************************)
(* C4.  When the write after a miss fails (cache_service.set raises, or    *)
(* the body cannot be decoded for the payload), the request still ends     *)
(* without an error, its caller has received everything self.app emitted,  *)
(* and the step leaves the backend as it was.                              *)
(***************************************************************************)
C4_FailedWriteIsSwallowed ==
    [][\A t \in DOMAIN task :
          (task[t].pc # "done" /\ task'[t].pc = "done"
               /\ task'[t].stored \in {"failed", "unencodable"}) =>
              /\ task'[t].outcome = "ok"
              /\ task'[t].sent = AppOf(task[t].app).msgs
              /\ redis' = redis]_vars

C4_Witness ==
    \E t \in DOMAIN task :
        /\ Done(t) /\ task[t].stored = "failed" /\ task[t].sets = 1
        /\ StatusOf(task[t].sent) = 200

(***************************************************************************)
(* C5.  A request that succeeds without caching (self.app returns) has the *)
(* same outcome with the cache layer: no error, and the caller gets the    *)
(* messages self.app produces for it.                                      *)
(***************************************************************************)
C5_CacheNeverChangesOutcome ==
    \A t \in DOMAIN task :
        (Done(t) /\ AppOf(task[t].app).ending = "return") =>
            /\ task[t].outcome = "ok"
            /\ task[t].sent = AppOf(task[t].app).msgs

(***************************************************************************)
(* C6.  With the backend failing on every call, every cacheable request    *)
(* is served by self.app, its lookup adds one to misses, and hits stays 0. *)
(***************************************************************************)
C6_BackendDownCountsMisses ==
    [][\A t \in DOMAIN task :
          (task[t].pc = "get" /\ task'[t].pc # "get") =>
              /\ task'[t].invoked = 1
              /\ misses' = misses + 1
              /\ hits' = 0]_vars

(***************************************************************************)
(* C7.  Every snapshot in the backend has status code 200; a request whose *)
(* response through the tee has another status never reaches the write     *)
(* and issues no cache_service.set, so the backend holds nothing of it.    *)
(***************************************************************************)
C7_OnlyStatus200IsStored ==
    /\ \A bk \in BackendKeys :
           redis[bk].value.kind = "json" =>
               redis[bk].value.doc.status_code = 200
    /\ \A t \in DOMAIN task :
           /\ task[t].pc = "set" => task[t].status_code = 200
           /\ (task[t].tee /\ task[t].status_code # 200) =>
                  /\ task[t].pc \in {"app", "done"}
                  /\ task[t].sets = 0
                  /\ task[t].stored = "none"

C7_Witness ==
    \E t \in DOMAIN task :
        /\ Done(t) /\ task[t].tee /\ StatusOf(task[t].sent) = 404
        /\ task[t].sets = 0
        /\ redis[Namespaced(task[t].key)].value = None

(***************************************************************************)
(* C8.  A request that is not a GET, or any request while caching is       *)
(* disabled, bypasses the cache: it issues no cache_service.get and no     *)
(* cache_service.set, none of its steps changes hits, misses or the        *)
(* backend, and self.app is invoked exactly once with the caller's own     *)
(* send, whatever status it answers.                                       *)
(***************************************************************************)
Ineligible(r) == r.pc # "idle" /\ (r.method # "GET" \/ ~CACHE_ENABLED)

C8_IneligibleBypasses ==
    [][\A t \in DOMAIN task :
          Ineligible(task'[t]) =>
              /\ task'[t].gets = 0
              /\ task'[t].sets = 0
              /\ task'[t].invoked = 1
              /\ ~task'[t].tee
              /\ task'[t].pc \in {"app", "done"}
              /\ task'[t].sent =
                     SubSeq(AppOf(task'[t].app).msgs, 1, task'[t].pos)
              /\ task'[t] # task[t] =>
                     (hits' = hits /\ misses' = misses /\ redis' = redis)]_vars

C8_Witness ==
    \E t \in DOMAIN task :
        /\ Done(t) /\ task[t].method = "POST" /\ CACHE_ENABLED
        /\ StatusOf(task[t].sent) = 200
        /\ task[t].sent = AppOf(task[t].app).msgs

(***************************************************************************)
(* C9.  When the lookup finds a value that decodes (it parses and every    *)
(* header encodes as latin-1), the lookup adds one to hits and nothing to  *)
(* misses, the response carries the stored status code, the stored         *)
(* headers (and a content-length when none is stored) and the stored       *)
(* body, and self.app is never invoked.                                    *)
(***************************************************************************)
Decodes(value) ==
    /\ value.kind = "json"
    /\ \A i \in 1..Len(value.doc.headers) :
           \A j \in 1..2 :
               \A n \in 1..Len(value.doc.headers[i][j]) :
                   value.doc.headers[i][j][n] <= 255

\* the stored headers, in order, and at most a content-length after them
CarriesHeaders(raw_headers, headers) ==
    /\ Len(raw_headers) >= Len(headers)
    /\ Len(raw_headers) <= Len(headers) + 1
    /\ \A i \in 1..Len(headers) :
           raw_headers[i] = <<Lower(headers[i][1]), headers[i][2]>>
    /\ \A i \in (Len(headers) + 1)..Len(raw_headers) :
           /\ raw_headers[i][1] = CONTENT_LENGTH
           /\ ~DictHas(headers, CONTENT_LENGTH)

C10_AbsentIsMissThroughTee ==
    [][\A t \in DOMAIN task :
          /\ (task[t].pc = "get" /\ task'[t].lookup = "absent") =>
                 /\ misses' = misses + 1 /\ hits' = hits
                 /\ task'[t].pc = "app" /\ task'[t].tee
                 /\ task'[t].invoked = 1
                 /\ task'[t].key = CacheKey(task[t].path, task[t].query)
          /\ (task'[t].pc = "done" /\ task'[t].lookup = "absent") =>
                 task'[t].invoked = 1]_vars

C10_Witness ==
    \E t \in DOMAIN task :
        /\ Done(t) /\ task[t].lookup = "absent" /\ task[t].tee
        /\ task[t].invoked = 1 /\ misses = 1 /\ hits = 0

(***************************************************************************)
(* The key of a request, from its scope.  request.url is built by          *)
(* Starlette as one string, scheme and host followed by scope["path"]      *)
(* (percent-decoded by the server) and, when scope["query_string"] is not  *)
(* empty, "?" and the query string; request.url.path and request.url.query *)
(* are urlsplit of that string.  Texts are sequences of one-character      *)
(* strings here.  CacheKey above is this function on paths that hold       *)
(* neither "?" nor "#".                                                    *)
(***************************************************************************)
\* URL(scope=scope), from the path on (scheme and host end where it starts)
ScopeUrl(path, query_string) ==
    IF query_string # <<>> THEN path \o <<"?">> \o query_string ELSE path

\* str.find(c) + 1
IndexOf(text, c) ==
    IF \E i \in 1..Len(text) : text[i] = c
    THEN CHOOSE i \in 1..Len(text) :
             text[i] = c /\ \A j \in 1..(i - 1) : text[j] # c
    ELSE 0

\* urlsplit: the fragment is what follows the first "#", the query what
\* follows the first "?" before it
UrlSplit(url) ==
    LET h == IndexOf(url, "#")
        rest == IF h = 0 THEN url ELSE SubSeq(url, 1, h - 1)
        q == IndexOf(rest, "?")
    IN  [path |-> IF q = 0 THEN rest ELSE SubSeq(rest, 1, q - 1),
         query |-> IF q = 0 THEN <<>> ELSE SubSeq(rest, q + 1, Len(rest)),
         fragment |-> IF h = 0 THEN <<>> ELSE SubSeq(url, h + 1, Len(url))]

\* key = request.url.path + "?" + (request.url.query or "")
RequestKey(path, query_string) ==
    LET url == UrlSplit(ScopeUrl(path, query_string))
    IN  url.path \o <<"?">> \o url.query

\* scope["path"] of GET /u, GET /u/a, GET /u/a%23b and GET /u%3Fa
KeyPaths ==
    {<<"/", "u">>, <<"/", "u", "/", "a">>, <<"/", "u", "/", "a", "#", "b">>,
     <<"/", "u", "?", "a">>}

\* scope["query_string"]: none, one parameter, two in either order, and a
\* value holding "?"
KeyQueries ==
    {<<>>, <<"a">>, <<"b">>, <<"a", "&", "b">>, <<"b", "&", "a">>,
     <<"a", "?", "b">>}

KeyRequests == [path : KeyPaths, query : KeyQueries]

\* Two GET requests a and b, one after the other, on an empty cache with
\* self.app answering 200: a is a miss and its snapshot is stored under
\* its key; b is looked up under its own key.
InitKey ==
    /\ CACHE_ENABLED = TRUE
    /\ redis = [bk \in BackendKeys |-> NoEntry]
    /\ redisUp = TRUE
    /\ hits = 0
    /\ misses = 0
    /\ task = [t \in 1..NumTasks |-> IdleTask]
    /\ env = [apps |-> {"ok"}, queries |-> {}]
    /\ \E a \in KeyRequests, b \in KeyRequests :
           call = [op |-> "key", pc |-> "first", a |-> a, b |-> b,
                   key_a |-> <<>>, key_b |-> <<>>, served |-> "none"]

KeyFirst ==
    /\ call.op = "key"
    /\ call.pc = "first"
    /\ call' = [call EXCEPT !.pc = "second",
                   !.key_a = RequestKey(call.a.path, call.a.query)]
    /\ UNCHANGED <<CACHE_ENABLED, redis, redisUp, hits, misses, task, env>>

KeySecond ==
    /\ call.op = "key"
    /\ call.pc = "second"
    /\ LET key == RequestKey(call.b.path, call.b.query)
       IN  call' = [call EXCEPT !.pc = "served", !.key_b = key,
                       !.served = IF key = call.key_a THEN "a" ELSE "b"]
    /\ UNCHANGED <<CACHE_ENABLED, redis, redisUp, hits, misses, task, env>>

NextKey == KeyFirst \/ KeySecond

SpecKey == InitKey /\ [][NextKey]_vars

(***************************************************************************)
(* C11.  Two requests with the same path and query string get the same     *)
(* key, and two requests with the same path whose query strings differ get *)
(* different keys: the second is not served the snapshot stored for the    *)
(* first.                                                                  *)
(***************************************************************************)
C11_KeyTellsQueriesApart ==
    (call.op = "key" /\ call.pc = "served") =>
        /\ call.a = call.b =>
               (call.key_a = call.key_b /\ call.served = "a")
        /\ (call.a.path = call.b.path /\ call.a.query # call.b.query) =>
               (call.key_a # call.key_b /\ call.served = "b")

(***************************************************************************)
(* A healthy deployment: caching enabled, the backend always up, self.app  *)
(* answering every request with status 200 (in one body chunk or in two),  *)
(* the requests one after the other.  Every miss then ends with its        *)
(* snapshot stored, so a second miss on the same key has found the entry   *)
(* of the first one expired.                                               *)
(***************************************************************************)
InitExpiry ==
    /\ CACHE_ENABLED = TRUE
    /\ redis = [bk \in BackendKeys |-> NoEntry]
    /\ redisUp = TRUE
    /\ hits = 0
    /\ misses = 0
    /\ task = <<IdleTask>>
    /\ env = [apps |-> {"ok", "stream"}, queries |-> {"role=admin"}]
    /\ call = NoCall

NextExpiry ==
    \/ \E t \in DOMAIN task, m \in Methods, p \in Paths, q \in env.queries :
           Running /\ Call(t, m, p, q)
    \/ \E t \in DOMAIN task : Running /\ CacheGet(t)
    \/ \E t \in DOMAIN task : Running /\ Respond(t)
    \/ \E t \in DOMAIN task : Running /\ AppSend(t)
    \/ \E t \in DOMAIN task : Running /\ AppReturn(t)
    \/ \E t \in DOMAIN task : Running /\ CacheSet(t)
    \/ Running /\ Tick
    \/ \E t \in DOMAIN task : Finish(t)

SpecExpiry == InitExpiry /\ [][NextExpiry]_vars

(***************************************************************************)
(* C12.  An entry is written with the default TTL and changes afterwards   *)
(* only by a new write or by the passing of time, one second less to live  *)
(* for every second and gone when none is left.  A lookup of a live entry  *)
(* gets its value; a lookup of an expired one is a miss that invokes       *)
(* self.app, and the write that ends the miss stores its snapshot with the *)
(* full TTL again.                                                         *)
(***************************************************************************)
C12_EntryLivesForItsTtl ==
    [][/\ \A bk \in BackendKeys :
              redis'[bk] # redis[bk] =>
                  \/ /\ redis'[bk].ttl = CACHE_TTL_DEFAULT
                     /\ redis'[bk].value # None
                  \/ /\ redis[bk].ttl > 1
                     /\ redis'[bk] = [redis[bk] EXCEPT !.ttl = @ - 1]
                  \/ /\ redis[bk].ttl = 1
                     /\ redis'[bk] = NoEntry
       /\ \A t \in DOMAIN task :
              /\ (Running /\ task[t].pc = "get" /\ task'[t].pc # "get") =>
                     IF redis[Namespaced(task[t].key)].ttl > 0
                     THEN /\ task'[t].pc = "respond"
                          /\ task'[t].cached =
                                 redis[Namespaced(task[t].key)].value
                          /\ task'[t].invoked = 0
                     ELSE /\ task'[t].pc = "app"
                          /\ task'[t].lookup = "absent"
                          /\ task'[t].invoked = 1
              /\ (Running /\ task[t].pc = "set" /\ task'[t].pc = "done") =>
                     /\ redis'[Namespaced(task[t].key)].ttl =
                            CACHE_TTL_DEFAULT
                     /\ redis'[Namespaced(task[t].key)].value =
                            JsonDumps(Payload(task[t]).val)]_vars

\* the second miss on the key has stored its snapshot
C12_Witness ==
    \E t \in DOMAIN task :
        /\ Done(t) /\ task[t].lookup = "absent" /\ task[t].stored = "written"
        /\ misses = 2 /\ hits = 0
        /\ redis[Namespaced(task[t].key)].ttl = CACHE_TTL_DEFAULT
        /\ redis[Namespaced(task[t].key)].origin = task[t].sent

(***************************************************************************)
(* A shared backend: another user of the Redis database, or an operator,   *)
(* writes strings of its own under the keys of the middleware.             *)
(***************************************************************************)
\* no text at all, text that is not JSON, and JSON that is not an object
\* ([1]: json.loads returns a list and cached_obj.get raises)
ForeignValues ==
    {RawString(<<>>), RawString(<<111, 111, 112, 115>>),
     RawString(<<91, 49, 93>>)}

\* SET key value EX ttl by the other user
ForeignSet(bk, value) ==
    /\ redisUp
    /\ redis' = [redis EXCEPT ![bk] =
                    [value |-> value, ttl |-> CACHE_TTL_DEFAULT,
                     origin |-> <<>>]]
    /\ UNCHANGED <<CACHE_ENABLED, redisUp, hits, misses, task, env, call>>

InitShared ==
    /\ CACHE_ENABLED = TRUE
    /\ redis = [bk \in BackendKeys |-> NoEntry]
    /\ redisUp = TRUE
    /\ hits = 0
    /\ misses = 0
    /\ task = [t \in 1..NumTasks |-> IdleTask]
    /\ env = [apps |-> {"ok", "not_found"}, queries |-> {"role=admin"}]
    /\ call = NoCall

NextShared ==
    \/ \E t \in DOMAIN task, m \in Methods, p \in Paths, q \in env.queries :
           Running /\ Call(t, m, p, q)
    \/ \E t \in DOMAIN task : Running /\ CacheGet(t)
    \/ \E t \in DOMAIN task : Running /\ Respond(t)
    \/ \E t \in DOMAIN task : Running /\ AppSend(t)
    \/ \E t \in DOMAIN task : Running /\ AppReturn(t)
    \/ \E t \in DOMAIN task : Running /\ CacheSet(t)
    \/ \E p \in Paths, q \in env.queries, value \in ForeignValues :
           Running /\ ForeignSet(Namespaced(CacheKey(p, q)), value)
    \/ Running /\ Tick
    \/ \E t \in DOMAIN task : Finish(t)

SpecShared == InitShared /\ [][NextShared]_vars

(***************************************************************************)
(* C13.  A request whose lookup returns a value that does not decode is    *)
(* served as a miss: self.app is invoked once and the caller gets its      *)
(* response, with no error.                                                *)
(***************************************************************************)
C13_MalformedIsMiss ==
    \A t \in DOMAIN task :
        (Done(t) /\ task[t].lookup = "value" /\ ~Decodes(task[t].cached)) =>
            /\ task[t].invoked = 1
            /\ task[t].outcome = "ok"
            /\ task[t].sent = AppOf(task[t].app).msgs

(***************************************************************************)
(* C14.  A request whose lookup returns a string that is not the JSON of   *)
(* an object is answered from the cache without an error: status 200, the  *)
(* string as the body, no header but the content-length of the body, and   *)
(* self.app is not invoked.                                                *)
(***************************************************************************)
C14_UndecodableIsDegradedHit ==
    \A t \in DOMAIN task :
        (Done(t) /\ task[t].lookup = "value"
                 /\ task[t].cached.kind = "raw") =>
            /\ task[t].invoked = 0
            /\ task[t].outcome = "ok"
            /\ StatusOf(task[t].sent) = 200
            /\ BodyOf(task[t].sent) = Utf8Encode(task[t].cached.text)
            /\ HeadersOf(task[t].sent) =
                   <<<<CONTENT_LENGTH,
                       DecimalBytes(Len(BodyOf(task[t].sent)))>>>>

(***************************************************************************)
(* The snapshot codec on header values outside ASCII: self.app answers 200 *)
(* with a header value that is UTF-8 for U+00E9 or for U+0100.  The        *)
(* backend is up and the requests come one after the other.                *)
(***************************************************************************)
InitCodec ==
    /\ CACHE_ENABLED = TRUE
    /\ redis = [bk \in BackendKeys |-> NoEntry]
    /\ redisUp = TRUE
    /\ hits = 0
    /\ misses = 0
    /\ task = <<IdleTask>>
    /\ env = [apps |-> {"ok", "stream", "utf8_header", "wide_header"},
              queries |-> {"role=admin"}]
    /\ call = NoCall

NextCodec ==
    \/ \E t \in DOMAIN task, m \in Methods, p \in Paths, q \in env.queries :
           Running /\ Call(t, m, p, q)
    \/ \E t \in DOMAIN task : Running /\ CacheGet(t)
    \/ \E t \in DOMAIN task : Running /\ Respond(t)
    \/ \E t \in DOMAIN task : Running /\ AppSend(t)
    \/ \E t \in DOMAIN task : Running /\ AppReturn(t)
    \/ \E t \in DOMAIN task : Running /\ CacheSet(t)
    \/ Running /\ Tick
    \/ \E t \in DOMAIN task : Finish(t)

SpecCodec == InitCodec /\ [][NextCodec]_vars

\* a header list with one value for every name, the last one
RECURSIVE LastWins(_, _)
LastWins(d, raw_headers) ==
    IF raw_headers = <<>> THEN d
    ELSE LastWins(DictSet(d, raw_headers[1][1], raw_headers[1][2]),
                  Tail(raw_headers))

(***************************************************************************)
(* C15.  A hit on a snapshot written by the tee answers with what the tee  *)
(* captured: the status code, the body bytes, and the header bytes the     *)
(* downstream response carried under every name.                           *)
(***************************************************************************)
C15_SnapshotRoundTrips ==
    \A t \in DOMAIN task :
        (Done(t) /\ Hit(t) /\ task[t].cached.kind = "json") =>
            /\ StatusOf(task[t].sent) = StatusOf(task[t].origin)
            /\ BodyOf(task[t].sent) = BodyOf(task[t].origin)
            /\ CarriesHeaders(HeadersOf(task[t].sent),
                              LastWins(<<>>, HeadersOf(task[t].origin)))

(***************************************************************************)
(* C16.  Once the tee has captured a start message, its headers hold every *)
(* header name of the message exactly once, each with the value of the     *)
(* last occurrence of the name in the message, and nothing else.           *)
(***************************************************************************)
C16_DuplicateHeadersLastWins ==
    \A t \in DOMAIN task :
        (task[t].tee /\ HasStart(task[t].sent)) =>
            LET raw_headers == HeadersOf(task[t].sent)
                headers == task[t].headers
                Last(name) ==
                    CHOOSE i \in 1..Len(raw_headers) :
                        /\ raw_headers[i][1] = name
                        /\ \A j \in (i + 1)..Len(raw_headers) :
                               raw_headers[j][1] # name
            IN  /\ \A i, j \in 1..Len(headers) :
                       headers[i][1] = headers[j][1] => i = j
                /\ \A i \in 1..Len(raw_headers) :
                       /\ DictHas(headers, Utf8Decode(raw_headers[i][1]).val)
                       /\ DictGet(headers, Utf8Decode(raw_headers[i][1]).val) =
                              Utf8Decode(
                                  raw_headers[Last(raw_headers[i][1])][2]).val
                /\ \A i \in 1..Len(headers) :
                       \E j \in 1..Len(raw_headers) :
                           Utf8Decode(raw_headers[j][1]).val = headers[i][1]

\* two set-cookie headers and a content-length captured as two headers
C16_Witness ==
    \E t \in DOMAIN task :
        /\ task[t].tee
        /\ HeadersOf(task[t].sent) =
               <<<<SET_COOKIE, <<97>>>>, <<SET_COOKIE, <<98>>>>,
                 <<CONTENT_LENGTH, <<48>>>>>>
        /\ task[t].headers =
               <<<<SET_COOKIE, <<98>>>>, <<CONTENT_LENGTH, <<48>>>>>>

(***************************************************************************)
(* Reconfiguration while requests are in flight.  settings.CACHE_ENABLED   *)
(* is read anew at every use (the eligibility test, the write condition),  *)
(* so an assignment to it takes effect in the middle of a request.         *)
(***************************************************************************)
Reconfigure ==
    /\ CACHE_ENABLED' = ~CACHE_ENABLED
    /\ UNCHANGED <<redis, redisUp, hits, misses, task, env, call>>

InitReconfigure ==
    /\ CACHE_ENABLED \in BOOLEAN
    /\ redis = [bk \in BackendKeys |-> NoEntry]
    /\ redisUp = TRUE
    /\ hits = 0
    /\ misses = 0
    /\ task = [t \in 1..NumTasks |-> IdleTask]
    /\ env = [apps |-> {"ok", "stream", "not_found", "raise_late"},
              queries |-> {"role=admin"}]
    /\ call = NoCall

NextReconfigure ==
    \/ \E t \in DOMAIN task, m \in Methods, p \in Paths, q \in env.queries :
           Running /\ Call(t, m, p, q)
    \/ \E t \in DOMAIN task : Running /\ CacheGet(t)
    \/ \E t \in DOMAIN task : Running /\ Respond(t)
    \/ \E t \in DOMAIN task : Running /\ AppSend(t)
    \/ \E t \in DOMAIN task : Running /\ AppReturn(t)
    \/ \E t \in DOMAIN task : Running /\ AppRaise(t)
    \/ \E t \in DOMAIN task : Running /\ CacheSet(t)
    \/ Running /\ Tick
    \/ Running /\ Reconfigure
    \/ \E t \in DOMAIN task : Finish(t)

SpecReconfigure == InitReconfigure /\ [][NextReconfigure]_vars

(***************************************************************************)
(* C17.  A request goes on to cache_service.set only from the return of    *)
(* self.app through the tee, with every message of self.app forwarded,     *)
(* the captured status code 200 and CACHE_ENABLED true at that moment; it  *)
(* calls cache_service.set at most once, and the call writes nothing but   *)
(* the entry of the request's key, with the default TTL.                   *)
(***************************************************************************)
C17_SetOnceAfterDownstream ==
    [][\A t \in DOMAIN task :
          Running =>
              /\ (task[t].pc # "set" /\ task'[t].pc = "set") =>
                     /\ task[t].pc = "app" /\ task[t].tee
                     /\ AppOf(task[t].app).ending = "return"
                     /\ task[t].pos = Len(AppOf(task[t].app).msgs)
                     /\ task[t].sent = AppOf(task[t].app).msgs
                     /\ task[t].status_code = 200
                     /\ CACHE_ENABLED
                     /\ task[t].sets = 0
              /\ task'[t].sets # task[t].sets =>
                     /\ task[t].pc = "set" /\ task'[t].pc = "done"
                     /\ task[t].sets = 0 /\ task'[t].sets = 1
                     /\ \A bk \in BackendKeys :
                            redis'[bk] # redis[bk] =>
                                /\ bk = Namespaced(CacheKey(task[t].path,
                                                            task[t].query))
                                /\ redis'[bk].ttl = CACHE_TTL_DEFAULT]_vars

C17_Witness ==
    \E t \in DOMAIN task :
        /\ Done(t) /\ task[t].tee /\ task[t].sets = 1
        /\ task[t].stored = "written"
        /\ task[t].sent = AppOf(task[t].app).msgs
        /\ Len(task[t].sent) = 3
        /\ redis[Namespaced(task[t].key)].origin = task[t].sent
        /\ redis[Namespaced(task[t].key)].ttl = CACHE_TTL_DEFAULT

(***************************************************************************)
(* Requests in flight at the same time, one more than NumTasks so that two *)
(* of them can meet on a key.  The backend is up and self.app answers 200  *)
(* in one body chunk or in two.                                            *)
(***************************************************************************)
InitConcurrent ==
    /\ CACHE_ENABLED = TRUE
    /\ redis = [bk \in BackendKeys |-> NoEntry]
    /\ redisUp = TRUE
    /\ hits = 0
    /\ misses = 0
    /\ task = [t \in 1..(NumTasks + 1) |-> IdleTask]
    /\ env = [apps |-> {"ok", "stream"}, queries |-> {"role=admin"}]
    /\ call = NoCall

NextConcurrent ==
    \/ \E t \in DOMAIN task, m \in Methods, p \in Paths, q \in env.queries :
           Running /\ Call(t, m, p, q)
    \/ \E t \in DOMAIN task : Running /\ CacheGet(t)
    \/ \E t \in DOMAIN task : Running /\ Respond(t)
    \/ \E t \in DOMAIN task : Running /\ AppSend(t)
    \/ \E t \in DOMAIN task : Running /\ AppReturn(t)
    \/ \E t \in DOMAIN task : Running /\ CacheSet(t)
    \/ Running /\ Tick
    \/ \E t \in DOMAIN task : Finish(t)

SpecConcurrent == InitConcurrent /\ [][NextConcurrent]_vars

(***************************************************************************)
(* C18.  Whatever the other requests in flight on the same key are doing,  *)
(* a lookup that finds no live entry is a miss that invokes self.app, and  *)
(* the write that ends a miss replaces the entry, whoever wrote it and     *)
(* whenever, by the snapshot of the request that writes.                   *)
(***************************************************************************)
C18_NoLockLastWriterWins ==
    [][\A t \in DOMAIN task :
          Running =>
              /\ (task[t].pc = "get" /\ task'[t].pc # "get"
                      /\ redis[Namespaced(task[t].key)].ttl = 0) =>
                     /\ misses' = misses + 1 /\ hits' = hits
                     /\ task'[t].lookup = "absent"
                     /\ task'[t].pc = "app" /\ task'[t].tee
                     /\ task'[t].invoked = 1
              /\ (task[t].pc = "set" /\ task'[t].pc # "set") =>
                     /\ task'[t].stored = "written"
                     /\ redis'[Namespaced(task[t].key)].value =
                            JsonDumps(Payload(task[t]).val)
                     /\ redis'[Namespaced(task[t].key)].origin =
                            task[t].sent]_vars

\* two misses on one key: the first has written its snapshot and the
\* second is about to write another one over it
C18_Witness ==
    \E t, u \in DOMAIN task :
        /\ t # u /\ task[t].key = task[u].key
        /\ task[t].lookup = "absent" /\ task[u].lookup = "absent"
        /\ misses = 2 /\ hits = 0
        /\ Done(t) /\ task[t].stored = "written"
        /\ redis[Namespaced(task[t].key)].origin = task[t].sent
        /\ task[u].pc = "set" /\ task[u].invoked = 1
        /\ task[u].sent # task[t].sent

(***************************************************************************)
(* C19.  With requests in flight together, every step in which a lookup    *)
(* returns adds exactly one to hits + misses, to hits when a value came    *)
(* back and to misses otherwise, and no other step changes a counter: the  *)
(* counters add up to the number of lookups made.                          *)
(***************************************************************************)
C19_EveryLookupCountedOnce ==
    [][LET lookups == {t \in DOMAIN task :
                           Running /\ task[t].pc = "get"
                                   /\ task'[t].pc # "get"}
           found == {t \in lookups : task'[t].lookup = "value"}
       IN  /\ hits' = hits + Cardinality(found)
           /\ misses' = misses + Cardinality(lookups \ found)
           /\ Cardinality(lookups) <= 1]_vars

\* two requests in flight, both past their lookup, with the backend alive
C19_Witness ==
    \E t, u \in DOMAIN task :
        /\ t # u
        /\ task[t].gets = 1 /\ task[u].gets = 1
        /\ task[t].pc \in {"app", "set"} /\ task[u].pc \in {"app", "set"}
        /\ task[t].lookup = "absent" /\ task[u].lookup = "absent"
        /\ hits + misses = 2

(***************************************************************************)
(* CacheService called directly, and the endpoints of api/v1/cache.py.     *)
(* call records the last call and what it returned or raised.              *)
(***************************************************************************)
\* a delete that passes the caller's key to the backend as it is
CacheServiceDelete_Bare(key) ==
    IF ~redisUp
    THEN [raised |-> TRUE, redis |-> redis]
    ELSE [raised |-> FALSE,
          redis |-> [bk \in DOMAIN redis |->
                        IF bk = key THEN NoEntry ELSE redis[bk]]]

\* CacheService.delete
CacheServiceDelete(key) ==
    IF ~redisUp
    THEN [raised |-> TRUE, redis |-> redis]
    ELSE [raised |-> FALSE,
          redis |-> [redis EXCEPT ![Namespaced(key)] = NoEntry]]

\* a clear that removes the keys under the prefix only
CacheServiceClear_PrefixOnly ==
    IF ~redisUp
    THEN [raised |-> TRUE, redis |-> redis]
    ELSE [raised |-> FALSE,
          redis |-> [bk \in DOMAIN redis |->
                        IF bk \in BackendKeys THEN NoEntry ELSE redis[bk]]]

\* CacheService.clear: FLUSHDB
CacheServiceClear ==
    IF ~redisUp
    THEN [raised |-> TRUE, redis |-> redis]
    ELSE [raised |-> FALSE, redis |-> [bk \in DOMAIN redis |-> NoEntry]]

\* a format that cuts the digits after the second decimal off
Fixed2Percent_Truncates(h, total) ==
    LET hundredths == (h * 10000) \div total
        cents == hundredths % 100
    IN  DecimalBytes(hundredths \div 100) \o <<46>>
            \o <<48 + (cents \div 10), 48 + (cents % 10)>> \o <<37>>

\* f"{hit_rate:.2f}%" of hit_rate = h / total * 100: the hundredths of a
\* percent rounded to the nearest (no tie arises for a total below 32)
Fixed2Percent(h, total) ==
    LET n == h * 10000
        q == n \div total
        r == n % total
        hundredths == IF 2 * r >= total THEN q + 1 ELSE q
        cents == hundredths % 100
    IN  DecimalBytes(hundredths \div 100) \o <<46>>
            \o <<48 + (cents \div 10), 48 + (cents % 10)>> \o <<37>>

\* CacheService.stats
CacheServiceStats ==
    LET total == hits + misses
    IN  [hits |-> hits, misses |-> misses,
         hit_rate |-> IF total > 0 THEN Fixed2Percent(hits, total)
                      ELSE <<48, 46, 48, 48, 37>>]

\* the values and TTLs that callers pass to set (0 stands for no ttl)
StoreValues == {RawString(<<118, 49>>), RawString(<<118, 50>>)}
StoreTtls == {0, 1}

StoreGet(key) ==
    /\ hits + misses < MaxLookups
    /\ LET r == CacheServiceGet(key)
       IN  /\ hits' = r.hits
           /\ misses' = r.misses
           /\ call' = [op |-> "get", key |-> key, raised |-> r.raised,
                       value |-> r.value]
    /\ UNCHANGED <<CACHE_ENABLED, redis, redisUp, task, env>>

StoreSet(key, value, ttl) ==
    /\ LET r == CacheServiceSet(key, value, ttl, <<>>)
       IN  /\ redis' = r.redis
           /\ call' = [op |-> "set", key |-> key, raised |-> r.raised,
                       value |-> value, ttl |-> ttl]
    /\ UNCHANGED <<CACHE_ENABLED, redisUp, hits, misses, task, env>>

StoreDelete(key) ==
    /\ LET r == CacheServiceDelete(key)
       IN  /\ redis' = r.redis
           /\ call' = [op |-> "delete", key |-> key, raised |-> r.raised,
                       value |-> None]
    /\ UNCHANGED <<CACHE_ENABLED, redisUp, hits, misses, task, env>>

\* a clear that starts the statistics over
StoreClear_ResetsStats ==
    /\ LET r == CacheServiceClear
       IN  /\ redis' = r.redis
           /\ call' = [op |-> "clear", raised |-> r.raised]
    /\ hits' = 0
    /\ misses' = 0
    /\ UNCHANGED <<CACHE_ENABLED, redisUp, task, env>>

StoreClear ==
    /\ LET r == CacheServiceClear
       IN  /\ redis' = r.redis
           /\ call' = [op |-> "clear", raised |-> r.raised]
    /\ UNCHANGED <<CACHE_ENABLED, redisUp, hits, misses, task, env>>

StoreStats ==
    /\ call' = [op |-> "stats", raised |-> FALSE, stats |-> CacheServiceStats]
    /\ UNCHANGED <<CACHE_ENABLED, redis, redisUp, hits, misses, task, env>>

\* what redis.ping() does: True from a server that answers; from one that
\* does not, an exception or an answer that is not True
PingOutcomes == IF redisUp THEN {"pong"} ELSE {"raises", "no_pong"}

\* GET /cache/status: the flag and whether the ping returned True; an
\* exception of the ping is caught
CacheStatusEndpoint ==
    /\ \E ping \in PingOutcomes :
           call' = [op |-> "cache_status", status |-> 200, ping |-> ping,
                    enabled |-> CACHE_ENABLED, healthy |-> (ping = "pong")]
    /\ UNCHANGED <<CACHE_ENABLED, redis, redisUp, hits, misses, task, env>>

\* a clear endpoint that does not look at the flag
CacheClearEndpoint_ClearsAnyway ==
    /\ LET r == CacheServiceClear
       IN  /\ redis' = r.redis
           /\ call' = [op |-> "cache_clear",
                       status |-> IF r.raised THEN 500
                                  ELSE IF CACHE_ENABLED THEN 200 ELSE 400]
    /\ UNCHANGED <<CACHE_ENABLED, redisUp, hits, misses, task, env>>

\* POST /cache/clear: 400 when caching is disabled, else clear; an
\* exception of clear leaves the handler (500)
CacheClearEndpoint ==
    /\ IF ~CACHE_ENABLED
       THEN /\ call' = [op |-> "cache_clear", status |-> 400]
            /\ redis' = redis
       ELSE LET r == CacheServiceClear
            IN  /\ redis' = r.redis
                /\ call' = [op |-> "cache_clear",
                            status |-> IF r.raised THEN 500 ELSE 200]
    /\ UNCHANGED <<CACHE_ENABLED, redisUp, hits, misses, task, env>>

\* GET /cache/stats
CacheStatsEndpoint ==
    /\ call' = [op |-> "cache_stats", status |-> 200,
                stats |-> CacheServiceStats]
    /\ UNCHANGED <<CACHE_ENABLED, redis, redisUp, hits, misses, task, env>>

InitStore ==
    /\ CACHE_ENABLED \in BOOLEAN
    /\ redis = [bk \in BackendKeys |-> NoEntry]
    /\ redisUp = TRUE
    /\ hits = 0
    /\ misses = 0
    /\ task = [t \in 1..NumTasks |-> IdleTask]
    /\ env = [apps |-> {}, queries |-> Queries]
    /\ call = NoCall

NextStore ==
    \/ \E key \in Keys : StoreGet(key)
    \/ \E key \in Keys, value \in StoreValues, ttl \in StoreTtls :
           StoreSet(key, value, ttl)
    \/ \E key \in Keys : StoreDelete(key)
    \/ StoreClear
    \/ StoreStats
    \/ CacheClearEndpoint
    \/ CacheStatsEndpoint
    \/ CacheStatusEndpoint
    \/ Tick
    \/ BackendFail
    \/ BackendRecover

SpecStore == InitStore /\ [][NextStore]_vars

(***************************************************************************)
(* C20.  No call on the service or on an endpoint (get, set, delete,       *)
(* clear, stats, POST /cache/clear, GET /cache/stats, GET /cache/status),  *)
(* no expiry and no backend failure ever makes hits or misses smaller.     *)
(***************************************************************************)
C20_CountersNeverDecrease ==
    [][hits' >= hits /\ misses' >= misses]_vars

\* the clear endpoint has emptied the backend and the counters stand
C20_Witness ==
    /\ call.op = "cache_clear" /\ call.status = 200
    /\ hits = 1 /\ misses = 1
    /\ \A bk \in BackendKeys : redis[bk] = NoEntry

(***************************************************************************)
(* The statistics read after any number of hits and misses up to MaxCount  *)
(* each.                                                                   *)
(***************************************************************************)
InitStats ==
    /\ CACHE_ENABLED = TRUE
    /\ redis = [bk \in BackendKeys |-> NoEntry]
    /\ redisUp = TRUE
    /\ hits \in 0..MaxCount
    /\ misses \in 0..MaxCount
    /\ task = [t \in 1..NumTasks |-> IdleTask]
    /\ env = [apps |-> {}, queries |-> {}]
    /\ call = NoCall

NextStats == StoreStats \/ CacheStatsEndpoint

SpecStats == InitStats /\ [][NextStats]_vars

\* the number a text of decimal digits stands for
RECURSIVE DecimalValue(_)
DecimalValue(text) ==
    IF text = <<>> THEN 0
    ELSE 10 * DecimalValue(SubSeq(text, 1, Len(text) - 1))
             + (text[Len(text)] - 48)

\* text is digits, ".", two digits, "%"
IsPercent(text) ==
    /\ Len(text) >= 5
    /\ text[Len(text)] = 37
    /\ text[Len(text) - 3] = 46
    /\ \A i \in (1..(Len(text) - 1)) \ {Len(text) - 3} :
           text[i] >= 48 /\ text[i] <= 57
    /\ (Len(text) > 5 => text[1] # 48)

\* the hundredths of a percent that such a text stands for
PercentHundredths(text) ==
    100 * DecimalValue(SubSeq(text, 1, Len(text) - 4))
        + DecimalValue(SubSeq(text, Len(text) - 2, Len(text) - 1))

(***************************************************************************)
(* C21.  A read of the statistics leaves hits and misses as they are and   *)
(* returns them with hit_rate, a percentage with two decimals: "0.00%"     *)
(* when hits = misses = 0, else the hundredth of a percent nearest to      *)
(* 100 * hits / (hits + misses), which is "50.00%" for 5 hits and 5        *)
(* misses.                                                                 *)
(***************************************************************************)
C21_HitRateIsPercentage ==
    [][call'.op \in {"stats", "cache_stats"} =>
          /\ hits' = hits /\ misses' = misses
          /\ call'.stats.hits = hits /\ call'.stats.misses = misses
          /\ IsPercent(call'.stats.hit_rate)
          /\ LET total == hits + misses
                 h == PercentHundredths(call'.stats.hit_rate)
             IN  /\ total = 0 =>
                        call'.stats.hit_rate = <<48, 46, 48, 48, 37>>
                 /\ total > 0 =>
                        /\ 2 * (h * total - hits * 10000) <= total
                        /\ 2 * (hits * 10000 - h * total) <= total
                 /\ (hits = 5 /\ misses = 5) =>
                        call'.stats.hit_rate = <<53, 48, 46, 48, 48, 37>>]_vars

C21_Witness ==
    /\ call.op = "stats" /\ hits = 5 /\ misses = 5
    /\ call.stats.hit_rate = <<53, 48, 46, 48, 48, 37>>

\* C21 as stated: with no hit and no miss the rate is reported as "0%"
C21_ZeroIsZeroPercent ==
    (call.op \in {"stats", "cache_stats"} /\ hits = 0 /\ misses = 0) =>
        call.stats.hit_rate = <<48, 37>>

(***************************************************************************)
(* C22.  With CACHE_ENABLED false, POST /cache/clear answers 400 and the   *)
(* backend keeps every entry; GET /cache/status answers 200 with           *)
(* enabled = false whether the ping returns True, returns something else   *)
(* or raises, and a ping that does not return True gives healthy = false   *)
(* in a 200 answer, with the flag on or off.                               *)
(***************************************************************************)
C22_DisabledEndpoints ==
    [][call' # call =>
          /\ (call'.op = "cache_clear" /\ ~CACHE_ENABLED) =>
                 (call'.status = 400 /\ redis' = redis)
          /\ call'.op = "cache_status" =>
                 /\ call'.status = 200
                 /\ call'.enabled = CACHE_ENABLED
                 /\ (call'.ping # "pong" => call'.healthy = FALSE)]_vars

\* the clear endpoint has refused while the backend holds an entry
C22_Witness ==
    /\ ~CACHE_ENABLED
    /\ call.op = "cache_clear" /\ call.status = 400
    /\ \E bk \in BackendKeys : redis[bk] # NoEntry

(***************************************************************************)
(* C23.  A get, set, delete or clear made while the backend is failing     *)
(* raises to its caller; it changes neither counter (a failed get counts   *)
(* no hit and no miss) and no entry.                                       *)
(***************************************************************************)
C23_FailuresPropagate ==
    [][(/\ call' # call
        /\ call'.op \in {"get", "set", "delete", "clear"}
        /\ ~redisUp) =>
          /\ call'.raised
          /\ hits' = hits /\ misses' = misses
          /\ redis' = redis]_vars

\* a get has raised after a hit had been counted
C23_Witness ==
    /\ ~redisUp
    /\ call.op = "get" /\ call.raised
    /\ hits = 1 /\ misses = 0

\* an entry a second later
CountDown(entry) ==
    IF entry.ttl > 1 THEN [entry EXCEPT !.ttl = @ - 1] ELSE NoEntry

(***************************************************************************)
(* C24.  A get that returns gives the value of the entry under the key     *)
(* while the entry is live and None when there is none; an entry is there  *)
(* from a set until its seconds have run out, a delete of its key or a     *)
(* clear: a set that returns puts its value under the key with the expiry  *)
(* it was given (CACHE_TTL_DEFAULT for 0) in place of what was there, a    *)
(* delete removes the entry of its key, a clear every entry, and no other  *)
(* call changes an entry.                                                  *)
(***************************************************************************)
C24_GetReturnsLatestSet ==
    [][/\ (/\ call' # call
           /\ call'.op \in {"get", "set", "delete", "clear"}
           /\ ~call'.raised) =>
            /\ call'.op = "get" =>
                   LET entry == redis[Namespaced(call'.key)]
                   IN  /\ call'.value =
                              (IF entry.ttl > 0 THEN entry.value ELSE None)
                       /\ redis' = redis
            /\ call'.op = "set" =>
                   redis' = [redis EXCEPT ![Namespaced(call'.key)] =
                                [value |-> call'.value,
                                 ttl |-> IF call'.ttl = 0
                                         THEN CACHE_TTL_DEFAULT
                                         ELSE call'.ttl,
                                 origin |-> <<>>]]
            /\ call'.op = "delete" =>
                   redis' = [redis EXCEPT ![Namespaced(call'.key)] = NoEntry]
            /\ call'.op = "clear" =>
                   \A bk \in BackendKeys : redis'[bk] = NoEntry
       /\ (/\ call' # call
           /\ call'.op \in {"stats", "cache_stats", "cache_status"}) =>
              redis' = redis
       /\ (call' # call /\ call'.op = "cache_clear" /\ call'.status = 200) =>
              \A bk \in BackendKeys : redis'[bk] = NoEntry
       /\ \A bk \in BackendKeys :
              \/ redis'[bk] \in {redis[bk], CountDown(redis[bk]), NoEntry}
              \/ /\ call'.op = "set" /\ ~call'.raised
                 /\ bk = Namespaced(call'.key)]_vars

\* a get has returned the value of an entry written with the default
\* expiry a second before
C24_Witness ==
    /\ call.op = "get" /\ ~call.raised /\ call.value # None
    /\ redis[Namespaced(call.key)].value = call.value
    /\ redis[Namespaced(call.key)].ttl = CACHE_TTL_DEFAULT - 1
    /\ \E bk \in BackendKeys : redis[bk] = NoEntry

(***************************************************************************)
(* A database that the service shares: another application keeps a key of  *)
(* its own, outside the prefix, in the database that CacheService.redis is *)
(* connected to.  Its name is one that a caller of the service uses too.   *)
(***************************************************************************)
ForeignKeys == {CacheKey("/users", "")}

InitDatabase ==
    /\ CACHE_ENABLED = TRUE
    /\ redis = [bk \in BackendKeys \cup ForeignKeys |-> NoEntry]
    /\ redisUp = TRUE
    /\ hits = 0
    /\ misses = 0
    /\ task = [t \in 1..NumTasks |-> IdleTask]
    /\ env = [apps |-> {}, queries |-> Queries]
    /\ call = NoCall

NextDatabase ==
    \/ \E key \in Keys : StoreGet(key)
    \/ \E key \in Keys, value \in StoreValues, ttl \in StoreTtls :
           StoreSet(key, value, ttl)
    \/ \E key \in Keys : StoreDelete(key)
    \/ StoreClear
    \/ CacheClearEndpoint
    \/ \E fk \in ForeignKeys, value \in ForeignValues : ForeignSet(fk, value)
    \/ Tick
    \/ BackendFail
    \/ BackendRecover

SpecDatabase == InitDatabase /\ [][NextDatabase]_vars

(***************************************************************************)
(* C25.  A clear that returns (by CacheService.clear or by POST            *)
(* /cache/clear) leaves no key in the database, the keys outside the       *)
(* prefix included; a get of a key without an entry returns None, and an   *)
(* entry under the prefix comes into being only by a set of its key.       *)
(***************************************************************************)
C25_ClearRemovesEveryKey ==
    [][/\ (/\ call' # call
           /\ \/ call'.op = "clear" /\ ~call'.raised
              \/ call'.op = "cache_clear" /\ call'.status = 200) =>
              \A bk \in DOMAIN redis' : redis'[bk] = NoEntry
       /\ (/\ call' # call
           /\ call'.op = "get" /\ ~call'.raised
           /\ redis[Namespaced(call'.key)] = NoEntry) =>
              call'.value = None
       /\ \A bk \in BackendKeys :
              (redis[bk] = NoEntry /\ redis'[bk] # NoEntry) =>
                  /\ call'.op = "set" /\ ~call'.raised
                  /\ bk = Namespaced(call'.key)]_vars

\* a clear has returned and has left nothing, after the counters show a
\* hit and a miss
C25_Witness ==
    /\ call.op = "clear" /\ ~call.raised
    /\ DOMAIN redis = BackendKeys \cup ForeignKeys
    /\ \A bk \in DOMAIN redis : redis[bk] = NoEntry
    /\ hits = 1 /\ misses = 1

(***************************************************************************)
(* C26.  get, set and delete with the caller's key k work on the backend   *)
(* key "autoaudit:" followed by k, the same for reading and for writing:   *)
(* a get returns what is under it, a set writes under it, a delete removes *)
(* it, and no other key of the database, under the prefix or outside it,   *)
(* is changed by the call.                                                 *)
(***************************************************************************)
C26_KeysAreNamespaced ==
    [][(call' # call /\ call'.op \in {"get", "set", "delete"}) =>
          LET bk == "autoaudit:" \o call'.key
          IN  /\ bk \in DOMAIN redis
              /\ \A other \in DOMAIN redis \ {bk} :
                     redis'[other] = redis[other]
              /\ ~call'.raised =>
                     /\ call'.op = "get" =>
                            call'.value = (IF redis[bk].ttl > 0
                                           THEN redis[bk].value ELSE None)
                     /\ call'.op = "set" =>
                            /\ redis'[bk].value = call'.value
                            /\ redis'[bk].ttl > 0
                     /\ call'.op = "delete" => redis'[bk] = NoEntry]_vars

\* a set has written under the prefix while the key of the same name
\* outside it holds the other application's value
C26_Witness ==
    /\ call.op = "set" /\ ~call.raised /\ call.key = CacheKey("/users", "")
    /\ redis["autoaudit:" \o call.key].value = call.value
    /\ redis[call.key].value \in ForeignValues
    /\ redis[call.key].ttl > 0

(***************************************************************************)
(* Progress.  Every coroutine runs on one event loop, which resumes each   *)
(* coroutine whose await has completed: a step of a request that can be    *)
(* taken is taken in the end (weak fairness for each step of each          *)
(* request).  The backend answers or raises, self.app emits its messages   *)
(* and returns or raises.  No fairness for the arrival of requests, for    *)
(* the clock or for the backend failing and recovering.  A request is      *)
(* admitted only while the lookups still to come fit under MaxLookups, so  *)
(* that no admitted request waits at the bound.                            *)
(***************************************************************************)
LookupsPending == Cardinality({t \in DOMAIN task : task[t].pc = "get"})

NextLive ==
    \/ \E t \in DOMAIN task, m \in Methods, p \in Paths, q \in env.queries :
           /\ Running
           /\ hits + misses + LookupsPending < MaxLookups
           /\ Call(t, m, p, q)
    \/ \E t \in DOMAIN task : Running /\ CacheGet(t)
    \/ \E t \in DOMAIN task : Running /\ Respond(t)
    \/ \E t \in DOMAIN task : Running /\ AppSend(t)
    \/ \E t \in DOMAIN task : Running /\ AppReturn(t)
    \/ \E t \in DOMAIN task : Running /\ AppRaise(t)
    \/ \E t \in DOMAIN task : Running /\ CacheSet(t)
    \/ Running /\ Tick
    \/ Running /\ BackendFail
    \/ Running /\ BackendRecover
    \/ \E t \in DOMAIN task : Finish(t)

Fairness ==
    \A t \in 1..NumTasks :
        /\ WF_vars(Running /\ CacheGet(t))
        /\ WF_vars(Running /\ Respond(t))
        /\ WF_vars(Running /\ AppSend(t))
        /\ WF_vars(Running /\ AppReturn(t))
        /\ WF_vars(Running /\ AppRaise(t))
        /\ WF_vars(Running /\ CacheSet(t))
        /\ WF_vars(Finish(t))

SpecLive == Init /\ [][NextLive]_vars /\ Fairness

\* self.app answers: it emits a start message and returns
Responds(name) ==
    AppOf(name).ending = "return" /\ HasStart(AppOf(name).msgs)

\* the caller has a start message and a body, and no exception
Served(t) ==
    /\ Done(t) /\ task[t].outcome = "ok"
    /\ HasStart(task[t].sent) /\ Len(task[t].sent) >= 2

(***************************************************************************)
(* C27.  A cacheable request is served in the end: its lookup returns or   *)
(* raises and the request goes on; a request answered from the cache gets  *)
(* its response; a request passed to a self.app that answers gets a start  *)
(* message and a body with no exception, whether the backend is up or      *)
(* down at the lookup and at the write.                                    *)
(***************************************************************************)
C27_CallerEventuallyServed ==
    \A t \in 1..NumTasks :
        /\ (task[t].pc = "get") ~> (task[t].pc \in {"respond", "app"})
        /\ (task[t].pc = "respond") ~> Served(t)
        /\ (task[t].pc = "app" /\ task[t].tee /\ Responds(task[t].app))
               ~> Served(t)

(***************************************************************************)
(* C28.  A snapshot is written only for a complete response: the write     *)
(* happens after self.app has emitted a start message and all its chunks   *)
(* and has returned, and the snapshot holds the status of that start       *)
(* message and the chunks joined in the order they were emitted; a         *)
(* self.app that raises, early or late, leaves no write.                   *)
(***************************************************************************)
C28_OnlyCompleteResponsesStored ==
    [][\A t \in DOMAIN task :
          (Running /\ task'[t].sets # task[t].sets
              /\ task'[t].stored = "written") =>
              LET msgs == AppOf(task[t].app).msgs
                  entry == redis'[Namespaced(task[t].key)]
              IN  /\ AppOf(task[t].app).ending = "return"
                  /\ task[t].pos = Len(msgs)
                  /\ HasStart(msgs)
                  /\ entry.value.kind = "json"
                  /\ entry.value.doc.status_code = StatusOf(msgs)
                  /\ Utf8Decode(BodyOf(msgs)) = Ok(entry.value.doc.body)]_vars

(***************************************************************************)
(* C30.  A request goes to cache_service.set only when self.app has        *)
(* emitted a start message with status 200; a self.app that returns        *)
(* without a start message leaves no call of cache_service.set.            *)
(***************************************************************************)
C30_NoStartNoSet ==
    \A t \in DOMAIN task :
        (task[t].pc = "set" \/ task[t].sets > 0) =>
            /\ HasStart(Emitted(t))
            /\ StatusOf(Emitted(t)) = 200

(***************************************************************************)
(* GraphService.list_users and GraphService.get_me: look the key up, serve *)
(* from the stored document, else ask the Graph API and store what a 200   *)
(* brings.  One call at a time; call holds the call in progress, one step  *)
(* per await: "get" before cache_service.get, "http" before client.get,    *)
(* "set" before cache_service.set, "done" when the coroutine has returned  *)
(* or raised.                                                              *)
(***************************************************************************)
\* bearer tokens of 17 characters, as the sequences of their characters:
\* two tokens that begin alike, as the tokens of one issuer do
Tokens ==
    {<<"e", "y", "J", "0", "e", "X", "A", "i", "O", "i", "J", "K", "V", "1",
       "Q", "i", "L">>,
     <<"e", "y", "J", "0", "e", "X", "A", "i", "O", "i", "J", "K", "V", "1",
       "Q", "i", "M">>}

\* top: Optional[int]
NoTop == [some |-> FALSE, n |-> 0]
Top(n) == [some |-> TRUE, n |-> n]
Tops == {NoTop, Top(0), Top(2)}

\* the string of a sequence of characters
RECURSIVE Join(_)
Join(chars) == IF chars = <<>> THEN "" ELSE chars[1] \o Join(Tail(chars))

\* token[:16]
First16(token) ==
    SubSeq(token, 1, IF Len(token) < 16 THEN Len(token) ELSE 16)

\* str(n) of a one-digit int
Str(n) ==
    CASE n = 0 -> "0" [] n = 1 -> "1" [] n = 2 -> "2" [] n = 3 -> "3"
      [] n = 4 -> "4" [] n = 5 -> "5" [] n = 6 -> "6" [] n = 7 -> "7"
      [] n = 8 -> "8" [] n = 9 -> "9"

\* f"graph_users:{token[:16]}{suffix}", suffix = f":top={top}" if top else ""
UsersCacheKey(token, top) ==
    "graph_users:" \o Join(First16(token))
        \o (IF top.some /\ top.n # 0 THEN ":top=" \o Str(top.n) ELSE "")

\* f"graph_me:{token[:16]}"
MeCacheKey(token) == "graph_me:" \o Join(First16(token))

GraphKeys ==
    {UsersCacheKey(token, top) : token \in Tokens, top \in Tops}
        \cup {MeCacheKey(token) : token \in Tokens}

GraphBackendKeys == {Namespaced(k) : k \in GraphKeys}

NoData == [value |-> <<>>]

\* the document the Graph API returns to the bearer of a token: what that
\* token's user may see
UserData(token) == [value |-> <<Join(token)>>]

\* what the Graph API answers to the bearer of a token: 200 with a JSON
\* document, 200 with a body that is not JSON, or an error status with a
\* text
UpstreamResponses(token) ==
    {[status_code |-> 200, json |-> TRUE, data |-> UserData(token)],
     [status_code |-> 200, json |-> FALSE, data |-> NoData],
     [status_code |-> 404, json |-> TRUE, data |-> NoData]}

\* json.dumps(data) of a document of the Graph API: a text, never empty
GraphDumps(data) == [kind |-> "graph", doc |-> data, text |-> <<>>]

\* the body of the try: json.loads(cached) and data.get(...); it raises
\* for a text that is not JSON and for JSON that is not an object
GraphLoads(value) == IF value.kind = "graph" THEN Ok(value.doc) ELSE Fail

\* bool(cached)
GraphTruthy(value) ==
    value.kind = "graph" \/ (value.kind = "raw" /\ value.text # <<>>)

GraphOps == {"list_users", "get_me"}

GraphIdle == IF call.op \in GraphOps THEN call.pc = "done" ELSE TRUE

GraphStart(op, token, key) ==
    [op |-> op, pc |-> "get", token |-> token, key |-> key,
     looked |-> "none",
     cached |-> None, upstream |-> 0, status_code |-> 0, data |-> NoData,
     source |-> "none", error |-> FALSE, raised |-> FALSE, wrote |-> FALSE]

\* list_users(token, top) is called: the key is computed
ListUsers(token, top) ==
    /\ GraphIdle
    /\ call' = GraphStart("list_users", token, UsersCacheKey(token, top))
    /\ UNCHANGED <<CACHE_ENABLED, redis, redisUp, hits, misses, task, env>>

\* get_me(token) is called: the key is computed
GetMe(token) ==
    /\ GraphIdle
    /\ call' = GraphStart("get_me", token, MeCacheKey(token))
    /\ UNCHANGED <<CACHE_ENABLED, redis, redisUp, hits, misses, task, env>>

\* cached = await cache_service.get(key), outside any try; a truthy value
\* that loads is returned as source "cache"
GraphGet ==
    /\ call.op \in GraphOps /\ call.pc = "get"
    /\ hits + misses < MaxLookups
    /\ LET r == CacheServiceGet(call.key)
           looked == [call EXCEPT !.cached = r.value,
                         !.looked = IF r.raised THEN "raised"
                                    ELSE IF r.value = None THEN "absent"
                                    ELSE "value"]
       IN  /\ hits' = r.hits
           /\ misses' = r.misses
           /\ call' =
                  IF r.raised
                  THEN [looked EXCEPT !.pc = "done", !.raised = TRUE]
                  ELSE IF GraphTruthy(r.value) /\ GraphLoads(r.value).ok
                  THEN [looked EXCEPT !.pc = "done", !.source = "cache",
                           !.data = GraphLoads(r.value).val]
                  ELSE [looked EXCEPT !.pc = "http"]
    /\ UNCHANGED <<CACHE_ENABLED, redis, redisUp, task, env>>

\* resp = await client.get(...): a 200 goes on to the write with
\* resp.json(), which raises for a body that is not JSON; any other
\* status is returned as an error
GraphHttp(token, resp) ==
    /\ call.op \in GraphOps /\ call.pc = "http"
    /\ token = call.token
    /\ LET asked == [call EXCEPT !.upstream = @ + 1,
                        !.status_code = resp.status_code]
       IN  call' =
               IF resp.status_code # 200
               THEN [asked EXCEPT !.pc = "done", !.source = "graph",
                        !.error = TRUE]
               ELSE IF ~resp.json
               THEN [asked EXCEPT !.pc = "done", !.raised = TRUE]
               ELSE [asked EXCEPT !.pc = "set", !.data = resp.data]
    /\ UNCHANGED <<CACHE_ENABLED, redis, redisUp, hits, misses, task, env>>

\* await cache_service.set(key, json.dumps(data)), outside any try
GraphSet ==
    /\ call.op \in GraphOps /\ call.pc = "set"
    /\ LET r == CacheServiceSet(call.key, GraphDumps(call.data), 0, <<>>)
       IN  /\ redis' = r.redis
           /\ call' = IF r.raised
                      THEN [call EXCEPT !.pc = "done", !.raised = TRUE]
                      ELSE [call EXCEPT !.pc = "done", !.source = "graph",
                               !.wrote = TRUE]
    /\ UNCHANGED <<CACHE_ENABLED, redisUp, hits, misses, task, env>>

InitGraph ==
    /\ CACHE_ENABLED = TRUE
    /\ redis = [bk \in GraphBackendKeys |-> NoEntry]
    /\ redisUp = TRUE
    /\ hits = 0
    /\ misses = 0
    /\ task = [t \in 1..NumTasks |-> IdleTask]
    /\ env = [apps |-> {}, queries |-> {}]
    /\ call = NoCall

NextGraph ==
    \/ \E token \in Tokens, top \in Tops : ListUsers(token, top)
    \/ \E token \in Tokens : GetMe(token)
    \/ GraphGet
    \/ \E token \in Tokens :
           \E resp \in UpstreamResponses(token) : GraphHttp(token, resp)
    \/ GraphSet
    \/ \E bk \in GraphBackendKeys, value \in ForeignValues :
           ForeignSet(bk, value)
    \/ Tick
    \/ BackendFail
    \/ BackendRecover

SpecGraph == InitGraph /\ [][NextGraph]_vars

(***************************************************************************)
(* C29.  list_users and get_me answer with source "cache" only when the    *)
(* lookup returned a value that loads, and then without asking the Graph   *)
(* API; every other call asks the Graph API exactly once; the backend is   *)
(* written only by the call's set, after a 200, under the call's key; a    *)
(* call whose upstream status is not 200 ends as an error, and a stored    *)
(* value that does not load leads to the upstream call.                    *)
(***************************************************************************)
C29_GraphCacheAside ==
    [][(call' # call /\ call'.op \in GraphOps) =>
          /\ call'.upstream <= 1
          /\ (call'.pc = "done" /\ call'.source = "cache") =>
                 /\ call'.looked = "value"
                 /\ GraphLoads(call'.cached).ok
                 /\ call'.upstream = 0
          /\ (call'.pc = "done" /\ call'.source # "cache") =>
                 call'.upstream = 1
          /\ (call'.pc = "done" /\ call'.upstream = 1
                  /\ call'.status_code # 200) =>
                 call'.error /\ ~call'.wrote
          /\ (call'.looked = "value" /\ ~GraphLoads(call'.cached).ok) =>
                 call'.pc = "http" \/ call'.upstream = 1
          /\ redis' # redis =>
                 /\ call'.wrote /\ call'.status_code = 200
                 /\ \A bk \in GraphBackendKeys \ {Namespaced(call'.key)} :
                        redis'[bk] = redis[bk]]_vars

(***************************************************************************)
(* C31.  A request answered from the cache changes nothing in the backend: *)
(* neither its lookup nor its answer writes, removes or prolongs an entry, *)
(* and it ends without a call of cache_service.set.  The seconds an entry  *)
(* has left grow only by the write that ends a miss on its key, so an      *)
(* entry is gone CACHE_TTL_DEFAULT seconds after its write whatever hits   *)
(* it has served.                                                          *)
(***************************************************************************)
C31_HitLeavesStoreAlone ==
    [][/\ \A t \in DOMAIN task :
              Running =>
                  /\ (task[t].pc = "get" /\ task'[t].pc = "respond") =>
                         redis' = redis
                  /\ (task[t].pc = "respond" /\ task'[t].pc = "done") =>
                         /\ redis' = redis
                         /\ task'[t].sets = 0
                         /\ task'[t].invoked = 0
       /\ \A bk \in BackendKeys :
              redis'[bk].ttl > redis[bk].ttl =>
                  \E u \in DOMAIN task :
                      /\ task[u].pc = "set" /\ task'[u].pc = "done"
                      /\ Namespaced(task[u].key) = bk
                      /\ task[u].invoked = 1]_vars

\* a hit has been answered from an entry written a second before, which
\* has the rest of its time to live
C31_Witness ==
    \E t \in DOMAIN task :
        /\ Done(t) /\ Hit(t) /\ task[t].outcome = "ok"
        /\ redis[Namespaced(task[t].key)].value = task[t].cached
        /\ redis[Namespaced(task[t].key)].ttl = CACHE_TTL_DEFAULT - 1

(***************************************************************************)
(* A clear after the data has changed: self.app answers with one response  *)
(* until its data changes and with another from then on, and the operator  *)
(* clears the cache by POST /cache/clear.  The clear arrives when every    *)
(* response under way has been emitted in full, so that a response of the  *)
(* old kind is one produced before the clear.                              *)
(***************************************************************************)
OldResponse == "ok"
NewResponse == "stream"

\* the data behind self.app changes
DownstreamChanges ==
    /\ env.apps = {OldResponse}
    /\ env' = [env EXCEPT !.apps = {NewResponse}]
    /\ UNCHANGED <<CACHE_ENABLED, redis, redisUp, hits, misses, task, call>>

\* self.app has emitted every message of every response under way
Produced ==
    \A t \in DOMAIN task :
        task[t].pc = "app" => task[t].pos = Len(AppOf(task[t].app).msgs)

InitClear ==
    /\ CACHE_ENABLED = TRUE
    /\ redis = [bk \in BackendKeys |-> NoEntry]
    /\ redisUp = TRUE
    /\ hits = 0
    /\ misses = 0
    /\ task = [t \in 1..NumTasks |-> IdleTask]
    /\ env = [apps |-> {OldResponse}, queries |-> Queries]
    /\ call = NoCall

NextClear ==
    \/ \E t \in DOMAIN task, m \in Methods, p \in Paths, q \in env.queries :
           Running /\ Call(t, m, p, q)
    \/ \E t \in DOMAIN task : Running /\ CacheGet(t)
    \/ \E t \in DOMAIN task : Running /\ Respond(t)
    \/ \E t \in DOMAIN task : Running /\ AppSend(t)
    \/ \E t \in DOMAIN task : Running /\ AppReturn(t)
    \/ \E t \in DOMAIN task : Running /\ CacheSet(t)
    \/ Running /\ Tick
    \/ Running /\ DownstreamChanges
    \/ Running /\ env.apps = {NewResponse} /\ Produced /\ CacheClearEndpoint
    \/ \E t \in DOMAIN task : Finish(t)

SpecClear == InitClear /\ [][NextClear]_vars

(***************************************************************************)
(* C32.  After the data has changed and a clear has completed, no lookup   *)
(* returns a snapshot of a response of the old kind: a miss that was under *)
(* way during the clear does not put its response into the cache.          *)
(***************************************************************************)
C32_NoPreClearDataAfterClear ==
    [][(/\ env.apps = {NewResponse}
        /\ call.op = "cache_clear" /\ call.status = 200) =>
          \A t \in DOMAIN task :
              (Running /\ task[t].pc = "get" /\ task'[t].pc = "respond") =>
                  task'[t].origin # AppOf(OldResponse).msgs]_vars

(***************************************************************************)
(* C33.  A lookup that returns adds one to exactly one counter: to hits    *)
(* when and only when the request is answered from the cache without       *)
(* self.app, to misses when and only when self.app is invoked; so for      *)
(* every string the backend can hold, the empty one included.              *)
(***************************************************************************)
C33_CountersFollowRouting ==
    [][\A t \in DOMAIN task :
          (/\ Running
           /\ task[t].pc = "get" /\ task'[t].pc # "get"
           /\ task'[t].lookup # "error") =>
              /\ hits' + misses' = hits + misses + 1
              /\ hits' = hits + 1 <=>
                     (task'[t].pc = "respond" /\ task'[t].invoked = 0)
              /\ misses' = misses + 1 <=>
                     (task'[t].pc = "app" /\ task'[t].invoked = 1)]_vars

(***************************************************************************)
(* C34.  A list_users or get_me call answered from the cache returns the   *)
(* document of its own token: never one that a call with another token     *)
(* has put into the cache.                                                 *)
(***************************************************************************)
C34_CachedDataIsPerToken ==
    (call.op \in GraphOps /\ call.pc = "done" /\ call.source = "cache") =>
        call.data = UserData(call.token)

(***************************************************************************)
(* Requests with credentials.  The process has been started over a backend *)
(* that holds snapshots written before (the counters are the process's,    *)
(* the entries are the backend's); requests carry an Authorization header  *)
(* and several are in flight together.  The answer of a hit may be sent    *)
(* while the coroutine of another finished request has not ended yet.      *)
(***************************************************************************)
\* the values of the Authorization header: two callers
Credentials == {<<97>>, <<98>>}

\* what a _ResponseCatcher holds after the messages
RECURSIVE Catch(_, _)
Catch(c, msgs) ==
    IF msgs = <<>> THEN c
    ELSE Catch(SendWrapper(c, msgs[1]), Tail(msgs))

\* the entry that a miss answered by the behaviour has written
SnapshotEntry(name) ==
    [value |-> JsonDumps(Payload(Catch([status_code |-> 200,
                                        headers |-> <<>>, body |-> <<>>],
                                       AppOf(name).msgs)).val),
     ttl |-> CACHE_TTL_DEFAULT, origin |-> AppOf(name).msgs]

InitCredentials ==
    /\ CACHE_ENABLED = TRUE
    /\ \E entry \in {NoEntry, SnapshotEntry("ok"), SnapshotEntry("stream")} :
           redis = [bk \in BackendKeys |->
                       IF bk = Namespaced(CacheKey("/users", "role=admin"))
                       THEN entry ELSE NoEntry]
    /\ redisUp = TRUE
    /\ hits = 0
    /\ misses = 0
    /\ task = [t \in 1..(NumTasks + 1) |-> IdleTask]
    /\ env = [apps |-> {"ok"}, queries |-> {"role=admin"}]
    /\ call = NoCall

NextCredentials ==
    \/ \E t \in DOMAIN task, p \in Paths, q \in env.queries,
          a \in Credentials :
           Running /\ Request(t, "GET", p, q, a)
    \/ \E t \in DOMAIN task : Running /\ CacheGet(t)
    \/ \E t \in DOMAIN task : Respond(t)
    \/ \E t \in DOMAIN task : Running /\ AppSend(t)
    \/ \E t \in DOMAIN task : Running /\ AppReturn(t)
    \/ \E t \in DOMAIN task : Running /\ CacheSet(t)
    \/ Running /\ Tick
    \/ \E t \in DOMAIN task : Finish(t)

SpecCredentials == InitCredentials /\ [][NextCredentials]_vars

=============================================================================
